---- MODULE Spec2Model ----
(***************************************************************************)
(* A model of the personal-finance client: the exchange-rate table and its *)
(* refresh (src/lib/utils.ts), the CurrencyProvider                        *)
(* (src/components/ui/currency-selector.tsx), the aggregation effects of   *)
(* the Dashboard and NetWorth views, the Dashboard's charts and category  *)
(* details, the entry forms, the data-access services (src/lib/services),  *)
(* sign-in and sign-up with the users-table mirror, the Assets and Debts   *)
(* pages, and the AuthProvider with the route guard of AppRoutes.          *)
(*                                                                         *)
(* Numbers.  The program computes with IEEE doubles.  The model computes   *)
(* exactly: an amount is an integer number of mills (1/1000 of a currency  *)
(* unit), a rate is an integer number of hundredths (USD = 100), and the   *)
(* intermediate values of a conversion are exact fractions <<num, den>>.   *)
(* toFixed(2) is therefore modelled as rounding the exact value to the     *)
(* nearest cent, ties away from zero; the representation error of a double *)
(* (below 1e-12 for the magnitudes used here) is not modelled.             *)
(***************************************************************************)
EXTENDS Integers, Sequences, FiniteSets, TLC

VARIABLES
    exchangeRates,      \* utils.ts:28, the module-level rate table
    fetchPc,            \* position of each loadExchangeRates invocation
    currency,           \* CurrencyProvider: code of the display currency
    currencyIsLoading,  \* CurrencyProvider: isLoading
    conv,               \* the last conversion call and what it returned
    lastStored,         \* history: the table the last successful fetch stored
    lastOutcome,        \* history: how the last settled fetch ended
    mounted,            \* the view the router shows
    viewPc,             \* position of the view's fetchData
    assetsData,         \* fetchData: the local assetsData
    assets,             \* view state (Dashboard.tsx:18, NetWorth)
    debts,              \* view state
    isLoading,          \* view state
    totalAssets,        \* view state
    totalDebts,         \* view state
    netWorth,           \* view state
    assetAllocation,    \* Dashboard state: category -> total
    debtAllocation,     \* Dashboard state
    assetChartData,     \* Dashboard state: the pie-chart items, in order
    debtChartData,      \* Dashboard state
    historicalData,     \* NetWorth state: the chart points
    effectPending,      \* the aggregation effect's dependencies have changed
    effectRan,          \* history: the last step was the aggregation effect
    rt,                 \* a conversion there and back: inputs and results
    form,               \* AssetForm / DebtForm: props and field values
    submitted,          \* the entry the form handed to onSubmit, if any
    svc,                \* the data-access call in progress and how it ended
    netWorthHistory,    \* the remote table net_worth_history
    signs,              \* each signIn / signUp invocation: position and locals
    usersRows,          \* the remote table users: rows with the identity's id
    usersIdUnique,      \* whether the table users refuses a second row of an id
    authLog,            \* history: invocations, inserts, overlap, table faults
    user,               \* AuthContext: the id of the authenticated user, or "none"
    page,               \* Assets / Debts page state (Assets.tsx:42-47)
    handlers,           \* the add / edit / delete handlers awaiting the store
    pageLog,            \* history: last step, last alert, last remote call
    details,            \* Dashboard state: the category details dialog
    authProvider,       \* AuthProvider state: session, loading, the lookup
    router              \* the location and what AppRoutes renders for it

ratesVars == <<exchangeRates, fetchPc, currencyIsLoading, lastStored, lastOutcome>>

derivedVars == <<totalAssets, totalDebts, netWorth, assetAllocation,
                 debtAllocation, assetChartData, debtChartData>>

viewVars == <<mounted, viewPc, assetsData, assets, debts, isLoading,
              derivedVars, historicalData, effectPending, effectRan>>

formVars == <<form, submitted>>

svcVars == <<svc, netWorthHistory>>

\* The state behind the services: data access, authentication, and the
\* pages that edit the entries.
authVars == <<signs, usersRows, usersIdUnique, authLog>>

pageVars == <<user, page, handlers, pageLog>>

routerVars == <<authProvider, router>>

backVars == <<svcVars, authVars, pageVars, details, routerVars>>

vars == <<ratesVars, currency, conv, viewVars, rt, formVars, backVars>>

\* The variables outside the Dashboard and its details dialog.
notDashboard == <<ratesVars, currency, conv, rt, formVars, svcVars, authVars, pageVars,
                  routerVars>>

----------------------------------------------------------------------------
(* Bounds and units *)

\* Number of loadExchangeRates invocations that may be in flight at once
\* (the mount-time call and overlapping hourly refreshes).
MaxFetches == 2

\* A rate r is stored as r * RateScale (the rate 1 of USD is RateScale).
RateScale == 100
\* An amount is stored in mills; toFixed(2) keeps whole cents of Cent mills.
Cent == 10

Fetchers == 1..MaxFetches

\* Currency codes: the three selectable ones and one the app never offers.
Codes == {"USD", "EUR", "RON", "GBP"}

\* utils.ts:14-18, in the order of the source.
AVAILABLE_CURRENCIES == <<"RON", "EUR", "USD">>

AvailableCodes == {AVAILABLE_CURRENCIES[i] : i \in DOMAIN AVAILABLE_CURRENCIES}

\* utils.ts:21-25
defaultExchangeRates == [c \in {"USD", "EUR", "RON"} |->
    CASE c = "USD" -> 100
      [] c = "EUR" -> 92
      [] c = "RON" -> 456]

----------------------------------------------------------------------------
(* Exact arithmetic *)

Abs(x) == IF x < 0 THEN -x ELSE x

RECURSIVE Gcd(_, _)
Gcd(a, b) == IF b = 0 THEN a ELSE Gcd(b, a % b)

\* q / rate, for an exact fraction q and a stored rate (rate / RateScale).
RatDiv(q, rate) ==
    LET g1 == Gcd(rate, Abs(q[1]))
        g2 == Gcd(RateScale, q[2])
    IN  <<(q[1] \div g1) * (RateScale \div g2), (q[2] \div g2) * (rate \div g1)>>

\* q * rate
RatMul(q, rate) ==
    LET g1 == Gcd(RateScale, Abs(q[1]))
        g2 == Gcd(rate, q[2])
    IN  <<(q[1] \div g1) * (rate \div g2), (q[2] \div g2) * (RateScale \div g1)>>

\* Number(x.toFixed(2)) for the exact value x = q[1]/q[2] mills: the integer n
\* of cents closest to x, the larger n on a tie, the sign handled apart.
ToFixed2Mutant(q) ==
    IF q[1] < 0 THEN -(Cent * ((-q[1]) \div (Cent * q[2])))
    ELSE Cent * (q[1] \div (Cent * q[2]))

ToFixed2(q) ==
    IF q[1] < 0 THEN -(Cent * (((-q[1]) + 5 * q[2]) \div (Cent * q[2])))
    ELSE Cent * ((q[1] + 5 * q[2]) \div (Cent * q[2]))

----------------------------------------------------------------------------
(* utils.ts: the rate table *)

\* A fallback on the built-in rate of the code instead of on 1.
RateOr1Mutant(table, code) ==
    IF code \in DOMAIN table /\ table[code] # 0 THEN table[code]
    ELSE IF code \in DOMAIN defaultExchangeRates THEN defaultExchangeRates[code]
    ELSE RateScale

\* exchangeRates[code] || 1 : a missing entry and an entry of 0 both give 1.
RateOr1(table, code) ==
    IF code \in DOMAIN table /\ table[code] # 0 THEN table[code] ELSE RateScale

\* { USD: 1, ...rates } : the spread comes second, so an entry of rates wins.
SpreadUSD(rates) ==
    [c \in DOMAIN rates \cup {"USD"} |->
        IF c \in DOMAIN rates THEN rates[c] ELSE RateScale]

\* The rates mappings the API may answer with.
ApiRates == {
    [c \in {"USD", "EUR", "RON"} |->
        CASE c = "USD" -> 100 [] c = "EUR" -> 92 [] c = "RON" -> 456],
    [c \in {"USD", "EUR", "RON", "GBP"} |->
        CASE c = "USD" -> 100 [] c = "EUR" -> 85 [] c = "RON" -> 500
          [] c = "GBP" -> 80],
    [c \in {"EUR", "RON"} |-> IF c = "EUR" THEN 90 ELSE 450],
    [c \in {"USD", "EUR"} |-> IF c = "USD" THEN 200 ELSE 92],
    [c \in {"USD", "EUR", "RON"} |->
        CASE c = "USD" -> 100 [] c = "EUR" -> 0 [] c = "RON" -> 456] }

\* The bodies response.json() may resolve to: a falsy body, a body whose
\* rates field is missing or falsy, a body with a rates mapping.
ApiData == {[kind |-> "null", rates |-> <<>>], [kind |-> "noRates", rates |-> <<>>]}
           \cup {[kind |-> "rates", rates |-> m] : m \in ApiRates}

\* data && data.rates
HasRates(data) == data.kind = "rates"

\* What fetchExchangeRates leaves in exchangeRates once response.json() has
\* resolved to data (lines 41-52).  The value it returns (the stored table,
\* or defaultExchangeRates on the else branch) is dropped by its only
\* caller, loadExchangeRates, and is not part of the state.
RatesAfterBodyMutant(table, data) ==
    IF HasRates(data) THEN SpreadUSD(data.rates) ELSE defaultExchangeRates

RatesAfterBodyMergeMutant(table, data) ==
    IF HasRates(data)
    THEN [c \in DOMAIN table \cup DOMAIN SpreadUSD(data.rates) |->
            IF c \in DOMAIN SpreadUSD(data.rates) THEN SpreadUSD(data.rates)[c]
            ELSE table[c]]
    ELSE table

RatesAfterBody(table, data) ==
    IF HasRates(data) THEN SpreadUSD(data.rates) ELSE table

\* What the catch block (lines 53-56) leaves in exchangeRates.
RatesAfterThrow(table) == table

----------------------------------------------------------------------------
(* utils.ts:66-77 and currency-selector.tsx:59-64 *)

convertCurrencyMutant(amount, fromCurrency, toCurrency) ==
    IF fromCurrency = toCurrency THEN amount
    ELSE LET fromRate == RateOr1(exchangeRates, fromCurrency)
             toRate == RateOr1(exchangeRates, toCurrency)
             amountInUSD == RatDiv(<<amount, 1>>, toRate)
             amountInTargetCurrency == RatMul(amountInUSD, fromRate)
         IN  ToFixed2(amountInTargetCurrency)

convertCurrencyNoShortcut(amount, fromCurrency, toCurrency) ==
    LET fromRate == RateOr1(exchangeRates, fromCurrency)
        toRate == RateOr1(exchangeRates, toCurrency)
        amountInUSD == RatDiv(<<amount, 1>>, fromRate)
        amountInTargetCurrency == RatMul(amountInUSD, toRate)
    IN  ToFixed2(amountInTargetCurrency)

convertCurrency(amount, fromCurrency, toCurrency) ==
    IF fromCurrency = toCurrency THEN amount
    ELSE LET fromRate == RateOr1(exchangeRates, fromCurrency)
             toRate == RateOr1(exchangeRates, toCurrency)
             amountInUSD == RatDiv(<<amount, 1>>, fromRate)
             amountInTargetCurrency == RatMul(amountInUSD, toRate)
         IN  ToFixed2(amountInTargetCurrency)

convertAmount(amount, fromCurrency) ==
    IF fromCurrency = currency THEN amount
    ELSE convertCurrency(amount, fromCurrency, currency)

----------------------------------------------------------------------------
(* The rate table and the CurrencyProvider as a state machine *)

\* Amounts handed to the conversion functions, in mills: negative, zero,
\* below one cent, not a whole number of cents, and a round amount.
Amounts == {-1235, 0, 4, 1234, 50000}

NoConv == [fn |-> "none", amount |-> 0, from |-> "USD", to |-> "USD", result |-> 0]

InitRates ==
    /\ exchangeRates = defaultExchangeRates
    /\ fetchPc = [f \in Fetchers |-> "idle"]
    /\ currencyIsLoading = TRUE
    /\ lastStored = defaultExchangeRates
    /\ lastOutcome = "none"

InitCurrency ==
    /\ currency = AVAILABLE_CURRENCIES[1]
    /\ conv = NoConv

\* currency-selector.tsx:40-43: loadExchangeRates up to the call of fetch,
\* started at mount and by the hourly interval.
LoadExchangeRates(f) ==
    /\ fetchPc[f] = "idle"
    /\ currencyIsLoading' = TRUE
    /\ fetchPc' = [fetchPc EXCEPT ![f] = "fetch"]
    /\ UNCHANGED <<exchangeRates, lastStored, lastOutcome>>

\* utils.ts:38: fetch() resolves with a response.
FetchResolves(f) ==
    /\ fetchPc[f] = "fetch"
    /\ fetchPc' = [fetchPc EXCEPT ![f] = "json"]
    /\ UNCHANGED <<exchangeRates, currencyIsLoading, lastStored, lastOutcome>>

\* utils.ts:38, 53-56: fetch() rejects (a network error).
FetchRejects(f) ==
    /\ fetchPc[f] = "fetch"
    /\ exchangeRates' = RatesAfterThrow(exchangeRates)
    /\ fetchPc' = [fetchPc EXCEPT ![f] = "finally"]
    /\ lastOutcome' = "failed"
    /\ UNCHANGED <<currencyIsLoading, lastStored>>

\* utils.ts:39, 53-56: response.json() rejects (the body is not JSON).
JsonRejects(f) ==
    /\ fetchPc[f] = "json"
    /\ exchangeRates' = RatesAfterThrow(exchangeRates)
    /\ fetchPc' = [fetchPc EXCEPT ![f] = "finally"]
    /\ lastOutcome' = "failed"
    /\ UNCHANGED <<currencyIsLoading, lastStored>>

\* utils.ts:39-52: response.json() resolves to data.
JsonResolves(f, data) ==
    /\ fetchPc[f] = "json"
    /\ exchangeRates' = RatesAfterBody(exchangeRates, data)
    /\ fetchPc' = [fetchPc EXCEPT ![f] = "finally"]
    /\ lastOutcome' = IF HasRates(data) THEN "ok" ELSE "failed"
    /\ lastStored' = IF HasRates(data) THEN SpreadUSD(data.rates) ELSE lastStored
    /\ UNCHANGED currencyIsLoading

\* currency-selector.tsx:46-48: the finally block of loadExchangeRates.
LoadSettles(f) ==
    /\ fetchPc[f] = "finally"
    /\ currencyIsLoading' = FALSE
    /\ fetchPc' = [fetchPc EXCEPT ![f] = "idle"]
    /\ UNCHANGED <<exchangeRates, lastStored, lastOutcome>>

RatesStep(F) ==
    \E f \in F :
        \/ LoadExchangeRates(f)
        \/ FetchResolves(f)
        \/ FetchRejects(f)
        \/ JsonRejects(f)
        \/ \E data \in ApiData : JsonResolves(f, data)
        \/ LoadSettles(f)

\* A caller applies convertCurrency.  The call is synchronous: nothing else
\* runs between the call and its return (ConvReturn).
CallConvertCurrency(a, f, t) ==
    /\ conv = NoConv
    /\ conv' = [fn |-> "convertCurrency", amount |-> a, from |-> f, to |-> t,
                result |-> convertCurrency(a, f, t)]
    /\ UNCHANGED <<ratesVars, currency>>

\* A view applies the context's convertAmount.
CallConvertAmount(a, f) ==
    /\ conv = NoConv
    /\ conv' = [fn |-> "convertAmount", amount |-> a, from |-> f, to |-> currency,
                result |-> convertAmount(a, f)]
    /\ UNCHANGED <<ratesVars, currency>>

\* The conversion call returns to its caller.
ConvReturn ==
    /\ conv # NoConv
    /\ conv' = NoConv
    /\ UNCHANGED <<ratesVars, currency>>

\* currency-selector.tsx:147-160: the user picks a display currency.
SetCurrency(c) ==
    /\ conv = NoConv
    /\ currency' = c
    /\ UNCHANGED <<ratesVars, conv>>

----------------------------------------------------------------------------
(* The Dashboard (pages/Dashboard.tsx) and NetWorth (pages/NetWorth, in
   types/financial.ts:143-325) views.  The router shows one of them at a
   time, and only to an authenticated user (AppRoutes, financial.ts:100-102),
   so the guard "if (user)" of Dashboard.tsx:54 holds while it is mounted. *)

\* Bounds on the lists the remote tables answer with.
MaxAssets == 2
MaxDebts == 2

\* An entry: name is the rank of the entry's name in the order of
\* .order('name'); value is in mills.
AssetPool == {
    [name |-> 1, category |-> "cash", value |-> 100000, currency |-> "USD"],
    [name |-> 2, category |-> "cash", value |-> 50000, currency |-> "EUR"],
    [name |-> 3, category |-> "real_estate", value |-> 1234, currency |-> "RON"] }

DebtPool == {
    [name |-> 1, category |-> "credit_card", value |-> 20000, currency |-> "USD"],
    [name |-> 2, category |-> "credit_card", value |-> 30005, currency |-> "EUR"],
    [name |-> 3, category |-> "mortgage", value |-> 70000, currency |-> "RON"] }

\* assetService.ts:7-13 / debtService.ts: the rows, ordered by name.
OrderedByName(s) == \A i \in 1..(Len(s) - 1) : s[i].name <= s[i + 1].name

ListsOf(pool, max) ==
    {s \in UNION {[1..n -> pool] : n \in 0..max} : OrderedByName(s)}

AssetLists == ListsOf(AssetPool, MaxAssets)
DebtLists == ListsOf(DebtPool, MaxDebts)

\* netWorthService.ts:6-14 mapped by financial.ts:184-188: net_worth values.
HistoryLists == {<<>>, <<5000>>}

\* The rate bodies the API answers with while a view is mounted.
ViewApiData == {d \in ApiData : HasRates(d) /\ "GBP" \in DOMAIN d.rates}

\* Dashboard.tsx:135-140
formatCategoryName(category) ==
    CASE category = "cash" -> "Cash"
      [] category = "bank_deposit" -> "Bank Deposit"
      [] category = "savings_account" -> "Savings Account"
      [] category = "investment" -> "Investment"
      [] category = "real_estate" -> "Real Estate"
      [] category = "vehicle" -> "Vehicle"
      [] category = "credit_card" -> "Credit Card"
      [] category = "student_loan" -> "Student Loan"
      [] category = "mortgage" -> "Mortgage"
      [] category = "auto_loan" -> "Auto Loan"
      [] category = "personal_loan" -> "Personal Loan"
      [] category = "medical_debt" -> "Medical Debt"
      [] category = "tax_debt" -> "Tax Debt"
      [] OTHER -> "Other"

\* Array.prototype.sort with (a, b) => b.value - a.value: stable, descending.
InsertDesc(sorted, x) ==
    LET later == {i \in 1..Len(sorted) : sorted[i].value < x.value}
        k == IF later = {} THEN Len(sorted) + 1
             ELSE CHOOSE i \in later : \A j \in later : i <= j
    IN  SubSeq(sorted, 1, k - 1) \o <<x>> \o SubSeq(sorted, k, Len(sorted))

SortDescByValueMutant(s) == s

RECURSIVE SortDescByValue(_)
SortDescByValue(s) ==
    IF s = <<>> THEN <<>>
    ELSE InsertDesc(SortDescByValue(SubSeq(s, 1, Len(s) - 1)), s[Len(s)])

\* Dashboard.tsx:312-313, 403-404: the render sorts the state array itself,
\* by converted value, descending; Dashboard.tsx:184-186 sorts a copy.
SortByConverted(entries) ==
    LET keyed == [i \in 1..Len(entries) |->
                    [value |-> convertAmount(entries[i].value, entries[i].currency),
                     item |-> entries[i]]]
        sorted == SortDescByValue(keyed)
    IN  [i \in 1..Len(entries) |-> sorted[i].item]

\* Dashboard.tsx:66-74 (and 99-107): one iteration of the forEach.  sums is
\* the object assetCategorySums, as the sequence of its entries in insertion
\* order.
AddToCategorySumsMutant(sums, entry) ==
    LET convertedValue == convertAmount(entry.value, entry.currency)
        at == {i \in 1..Len(sums) : sums[i].category = entry.category}
    IN  IF at = {}
        THEN Append(sums, [category |-> entry.category, value |-> convertedValue,
                           currency |-> entry.currency])
        ELSE [i \in 1..Len(sums) |->
                IF i \in at THEN [sums[i] EXCEPT !.value = convertedValue]
                ELSE sums[i]]

AddToCategorySums(sums, entry) ==
    LET convertedValue == convertAmount(entry.value, entry.currency)
        at == {i \in 1..Len(sums) : sums[i].category = entry.category}
    IN  IF at = {}
        THEN Append(sums, [category |-> entry.category, value |-> 0 + convertedValue,
                           currency |-> entry.currency])
        ELSE [i \in 1..Len(sums) |->
                IF i \in at THEN [sums[i] EXCEPT !.value = @ + convertedValue]
                ELSE sums[i]]

RECURSIVE CategorySums(_)
CategorySums(entries) ==
    IF entries = <<>> THEN <<>>
    ELSE AddToCategorySums(CategorySums(SubSeq(entries, 1, Len(entries) - 1)),
                           entries[Len(entries)])

\* Object.values(sums).reduce((sum, {value}) => sum + value, 0)
RECURSIVE SumValues(_)
SumValues(sums) ==
    IF sums = <<>> THEN 0
    ELSE SumValues(SubSeq(sums, 1, Len(sums) - 1)) + sums[Len(sums)].value

\* Dashboard.tsx:81-88 (and 114-121)
ChartData(sums) ==
    SortDescByValue([i \in 1..Len(sums) |->
        [name |-> formatCategoryName(sums[i].category), value |-> sums[i].value,
         originalCurrency |-> sums[i].currency]])

\* Dashboard.tsx:92-94 (and 125-127)
Allocation(sums) ==
    [c \in {sums[i].category : i \in 1..Len(sums)} |->
        LET i == CHOOSE j \in 1..Len(sums) : sums[j].category = c IN sums[i].value]

\* Dashboard.tsx:131
DashboardNetWorthMutant(assetTotal, debtTotal) == ToFixed2(<<assetTotal - debtTotal, 1>>)

DashboardNetWorth(assetTotal, debtTotal) == assetTotal - debtTotal

\* NetWorth (financial.ts:204-215): the running totals of the two forEach.
RECURSIVE SumConverted(_)
SumConverted(entries) ==
    IF entries = <<>> THEN 0
    ELSE SumConverted(SubSeq(entries, 1, Len(entries) - 1))
         + convertAmount(entries[Len(entries)].value, entries[Len(entries)].currency)

NoAllocation == [c \in {} |-> 0]

InitView ==
    /\ mounted = "Dashboard"
    /\ viewPc = "getAssets"
    /\ assetsData = <<>>
    /\ assets = <<>>
    /\ debts = <<>>
    /\ isLoading = TRUE
    /\ totalAssets = 0
    /\ totalDebts = 0
    /\ netWorth = 0
    /\ assetAllocation = NoAllocation
    /\ debtAllocation = NoAllocation
    /\ assetChartData = <<>>
    /\ debtChartData = <<>>
    /\ historicalData = <<>>
    /\ effectPending = TRUE
    /\ effectRan = FALSE

\* The router unmounts the view and mounts v: the state of v is that of its
\* useState initialisers, its fetch effect has called getAssets
\* (Dashboard.tsx:38-57, financial.ts:169-199) and its aggregation effect is
\* due.  What an unmounted view's fetchData would still set is dropped.
Navigate(v) ==
    /\ mounted # v
    /\ mounted' = v
    /\ viewPc' = "getAssets"
    /\ assetsData' = <<>>
    /\ assets' = <<>>
    /\ debts' = <<>>
    /\ isLoading' = TRUE
    /\ totalAssets' = 0
    /\ totalDebts' = 0
    /\ netWorth' = 0
    /\ assetAllocation' = NoAllocation
    /\ debtAllocation' = NoAllocation
    /\ assetChartData' = <<>>
    /\ debtChartData' = <<>>
    /\ historicalData' = <<>>
    /\ effectPending' = TRUE

\* Dashboard.tsx:42 / financial.ts:175: getAssets resolves with the rows.
GetAssetsResolves(rows) ==
    /\ viewPc = "getAssets"
    /\ assetsData' = rows
    /\ viewPc' = "getDebts"
    /\ UNCHANGED <<mounted, assets, debts, isLoading, derivedVars, historicalData,
                   effectPending>>

\* The catch and finally blocks of fetchData (Dashboard.tsx:47-51,
\* financial.ts:191-195).  isLoading is a dependency of the Dashboard's
\* aggregation effect, not of NetWorth's.
FetchDataFailsMutant ==
    /\ isLoading' = isLoading
    /\ viewPc' = "done"
    /\ effectPending' = effectPending
    /\ UNCHANGED <<mounted, assetsData, assets, debts, derivedVars, historicalData>>

FetchDataFails ==
    /\ isLoading' = FALSE
    /\ viewPc' = "done"
    /\ effectPending' = (effectPending \/ mounted = "Dashboard")
    /\ UNCHANGED <<mounted, assetsData, assets, debts, derivedVars, historicalData>>

GetAssetsRejects == viewPc = "getAssets" /\ FetchDataFails

GetDebtsRejects == viewPc = "getDebts" /\ FetchDataFails

\* Dashboard.tsx:43-50: getDebts resolves; setAssets, setDebts and, in the
\* finally block, setIsLoading(false) run in one continuation.
\* financial.ts:176-181: NetWorth goes on to await getNetWorthHistory.
GetDebtsResolves(rows) ==
    /\ viewPc = "getDebts"
    /\ assets' = assetsData
    /\ debts' = rows
    /\ effectPending' = TRUE
    /\ IF mounted = "Dashboard"
       THEN isLoading' = FALSE /\ viewPc' = "done"
       ELSE isLoading' = isLoading /\ viewPc' = "getHistory"
    /\ UNCHANGED <<mounted, assetsData, derivedVars, historicalData>>

\* financial.ts:181-195
GetHistoryResolves(h) ==
    /\ viewPc = "getHistory"
    /\ historicalData' = h
    /\ isLoading' = FALSE
    /\ viewPc' = "done"
    /\ UNCHANGED <<mounted, assetsData, assets, debts, derivedVars, effectPending>>

GetHistoryRejects == viewPc = "getHistory" /\ FetchDataFails

\* Dashboard.tsx:59-132, after the render that precedes it (lines 312-313 and
\* 403-404 sort assets and debts in place).
DashboardEffect ==
    /\ mounted = "Dashboard"
    /\ effectPending
    /\ effectPending' = FALSE
    /\ assets' = SortByConverted(assets)
    /\ debts' = SortByConverted(debts)
    /\ IF assets = <<>> /\ debts = <<>> /\ isLoading
       THEN UNCHANGED derivedVars
       ELSE LET assetCategorySums == CategorySums(assets')
                debtCategorySums == CategorySums(debts')
                assetTotal == SumValues(assetCategorySums)
                debtTotal == SumValues(debtCategorySums)
            IN  /\ totalAssets' = assetTotal
                /\ assetChartData' = ChartData(assetCategorySums)
                /\ assetAllocation' = Allocation(assetCategorySums)
                /\ totalDebts' = debtTotal
                /\ debtChartData' = ChartData(debtCategorySums)
                /\ debtAllocation' = Allocation(debtCategorySums)
                /\ netWorth' = DashboardNetWorth(assetTotal, debtTotal)
    /\ UNCHANGED <<mounted, viewPc, assetsData, isLoading, historicalData>>

\* A render of the Dashboard with no effect to run (the context value or the
\* theme changed): lines 312-313 and 403-404 sort the state arrays in place.
DashboardRender ==
    /\ mounted = "Dashboard"
    /\ ~effectPending
    /\ assets' = SortByConverted(assets)
    /\ debts' = SortByConverted(debts)
    /\ UNCHANGED <<mounted, viewPc, assetsData, isLoading, derivedVars,
                   historicalData, effectPending>>

\* financial.ts:202-222
NetWorthEffect ==
    /\ mounted = "NetWorth"
    /\ effectPending
    /\ effectPending' = FALSE
    /\ LET assetTotal == SumConverted(assets)
           debtTotal == SumConverted(debts)
       IN  /\ totalAssets' = assetTotal
           /\ totalDebts' = debtTotal
           /\ netWorth' = assetTotal - debtTotal
    /\ UNCHANGED <<mounted, viewPc, assetsData, assets, debts, isLoading,
                   assetAllocation, debtAllocation, assetChartData, debtChartData,
                   historicalData>>

\* The dependency list of a view's aggregation effect: Dashboard.tsx:132,
\* financial.ts:222.  The other views have no such effect.
EffectDepsMutant(view) == {"assets", "debts"}

EffectDeps(view) ==
    CASE view = "Dashboard" ->
            {"assets", "debts", "currency", "convertAmount", "isLoading"}
      [] view = "NetWorth" -> {"assets", "debts", "convertAmount", "currency"}
      [] OTHER -> {}

\* The user picks a display currency while a view is mounted: the provider's
\* currency changes, and with it the identity of convertAmount
\* (currency-selector.tsx:58-63); an effect that depends on either is due
\* after the render that follows.
SetCurrencyInView(c) ==
    /\ c # currency
    /\ SetCurrency(c)
    /\ effectPending' =
          (effectPending \/ {"currency", "convertAmount"} \cap EffectDeps(mounted) # {})
    /\ UNCHANGED <<mounted, viewPc, assetsData, assets, debts, isLoading,
                   derivedVars, historicalData>>

\* A refresh of the rate table while a view is mounted.  exchangeRates is a
\* module variable, not React state: no aggregation effect depends on it.
RatesInView ==
    /\ effectRan' = FALSE
    /\ UNCHANGED <<currency, conv, mounted, viewPc, assetsData, assets, debts,
                   isLoading, derivedVars, historicalData, effectPending,
                   rt, formVars, backVars>>

----------------------------------------------------------------------------
(* A conversion there and back *)

\* Largest amount of the round trips, in cents.
MaxCents == 400

RoundTripCodes == {"USD", "EUR", "RON"}

NoRoundTrip == [stage |-> "none", amount |-> 0, from |-> "USD", to |-> "USD",
                there |-> 0, back |-> 0]

RoundTripInputs ==
    {[stage |-> "start", amount |-> Cent * a, from |-> f, to |-> t,
      there |-> 0, back |-> 0] :
        a \in 1..MaxCents, f \in RoundTripCodes, t \in RoundTripCodes}

InitRoundTrip == rt = NoRoundTrip

RoundTripThere ==
    /\ rt.stage = "start"
    /\ rt' = [rt EXCEPT !.stage = "there",
                        !.there = convertCurrency(rt.amount, rt.from, rt.to)]

RoundTripBack ==
    /\ rt.stage = "there"
    /\ rt' = [rt EXCEPT !.stage = "back",
                        !.back = convertCurrency(rt.there, rt.to, rt.from)]

----------------------------------------------------------------------------
(* components/forms/AssetForm (unnamed/part_002) and DebtForm.tsx.  The two
   files differ in the category list only. *)

\* types/financial.ts:36-57
ASSET_CATEGORIES == {"cash", "bank_deposit", "savings_account", "investment",
                     "real_estate", "vehicle", "other"}

DEBT_CATEGORIES == {"credit_card", "student_loan", "mortgage", "auto_loan",
                    "personal_loan", "medical_debt", "tax_debt", "other"}

CategoriesOf(kind) == IF kind = "asset" THEN ASSET_CATEGORIES ELSE DEBT_CATEGORIES

\* The length limit of the name (schema line 40) and the smallest value the
\* number input accepts, "0.01" (form line 171), in mills.
MaxNameLength == 100
MinInputValue == 10

\* Lengths of the names typed: empty, within the limit, at it, beyond it.
NameLengths == {0, 1, MaxNameLength, MaxNameLength + 1}

\* What the number input holds after typing: "" (also for text that is no
\* number), or a number in mills.
RawValues == {<<>>, <<-1000>>, <<0>>, <<4>>, <<5>>, <<10>>, <<14>>, <<1230>>, <<2500>>}

\* A field value: <<>> is undefined, <<v>> the number v.
Undefined == <<>>

\* The entry being edited (initialAsset / initialDebt), <<>> when adding.
\* A stored value is not validated by the storage.
InitialEntries(kind) ==
    {<<>>}
    \cup {<<[id |-> "e1", nameLen |-> 1, category |-> c, value |-> v,
             currency |-> "EUR"]>> :
            c \in (IF kind = "asset" THEN {"cash", "bitcoin"}
                   ELSE {"mortgage", "bitcoin"}),
            v \in {0, 4, 2500}}

\* Form lines 64-69
getValidCategory(kind, category) ==
    IF category \notin CategoriesOf(kind) THEN "other" ELSE category

\* Form lines 71-93: defaultValues, then the reset of the effect.
\* initialAsset?.value || undefined, then value: initialAsset.value.
FieldsFor(kind, initial) ==
    IF initial = <<>>
    THEN [nameLen |-> 0, category |-> getValidCategory(kind, "other"),
          value |-> Undefined, currency |-> "USD"]
    ELSE [nameLen |-> initial[1].nameLen,
          category |-> getValidCategory(kind, initial[1].category),
          value |-> <<initial[1].value>>, currency |-> initial[1].currency]

NoForm == [open |-> FALSE, kind |-> "asset", initial |-> <<>>,
           fields |-> FieldsFor("asset", <<>>), errors |-> {}]

InitForm == form = NoForm /\ submitted = <<>>

\* Assets.tsx:366-378: the dialog mounts the form, adding or editing.
OpenForm(kind, initial) ==
    /\ ~form.open
    /\ form' = [open |-> TRUE, kind |-> kind, initial |-> initial,
                fields |-> FieldsFor(kind, initial), errors |-> {}]
    /\ UNCHANGED submitted

TypeName(n) ==
    /\ form.open /\ submitted = <<>>
    /\ form' = [form EXCEPT !.fields.nameLen = n]
    /\ UNCHANGED submitted

SelectCategory(c) ==
    /\ form.open /\ submitted = <<>>
    /\ c \in CategoriesOf(form.kind)
    /\ form' = [form EXCEPT !.fields.category = c]
    /\ UNCHANGED submitted

\* Form line 177: e.target.value === '' ? undefined : parseFloat(...) || 0
TypeValue(raw) ==
    /\ form.open /\ submitted = <<>>
    /\ form' = [form EXCEPT !.fields.value = raw]
    /\ UNCHANGED submitted

SelectCurrency(c) ==
    /\ form.open /\ submitted = <<>>
    /\ form' = [form EXCEPT !.fields.currency = c]
    /\ UNCHANGED submitted

\* Form lines 169-173: <input type="number" min="0.01" step="0.01"> in a form
\* without noValidate.  The browser fires no submit event while the input
\* is not empty and its value is below min or off the steps from min.
NativeValueValidMutant(value) == TRUE

NativeValueValid(value) ==
    IF value = Undefined THEN TRUE
    ELSE /\ value[1] >= MinInputValue
         /\ (value[1] - MinInputValue) % Cent = 0

\* Schema lines 44-46: z.coerce.number().gt(0).transform(toFixed(2)).
\* Number(undefined) is NaN, which z.number() rejects.
ZodValue(value) ==
    IF value = Undefined THEN [ok |-> FALSE, value |-> 0]
    ELSE IF ~(value[1] > 0) THEN [ok |-> FALSE, value |-> 0]
    ELSE [ok |-> TRUE, value |-> ToFixed2(<<value[1], 1>>)]

\* Schema lines 37-51: the fields the resolver reports as invalid.
ZodErrors(kind, fields) ==
    {f \in {"name", "category", "value"} :
        \/ f = "name" /\ (fields.nameLen < 1 \/ fields.nameLen > MaxNameLength)
        \/ f = "category" /\ fields.category \notin CategoriesOf(kind)
        \/ f = "value" /\ ~ZodValue(fields.value).ok}

\* The submit button is pressed and the browser's own validation holds the
\* form back.
SubmitBlockedByBrowser ==
    /\ form.open /\ submitted = <<>>
    /\ ~NativeValueValid(form.fields.value)
    /\ UNCHANGED <<form, submitted>>

\* form.handleSubmit: the resolver finds errors; handleSubmit is not called.
SubmitInvalid ==
    /\ form.open /\ submitted = <<>>
    /\ NativeValueValid(form.fields.value)
    /\ ZodErrors(form.kind, form.fields) # {}
    /\ form' = [form EXCEPT !.errors = ZodErrors(form.kind, form.fields)]
    /\ UNCHANGED submitted

\* Form lines 95-115: handleSubmit builds the entry, hands it to onSubmit and
\* resets the form.
SubmitValid ==
    /\ form.open /\ submitted = <<>>
    /\ NativeValueValid(form.fields.value)
    /\ ZodErrors(form.kind, form.fields) = {}
    /\ submitted' = <<[id |-> IF form.initial = <<>> THEN "uuid" ELSE form.initial[1].id,
                       nameLen |-> form.fields.nameLen,
                       category |-> form.fields.category,
                       value |-> ZodValue(form.fields.value).value,
                       currency |-> form.fields.currency]>>
    /\ form' = [form EXCEPT !.fields = FieldsFor(form.kind, form.initial),
                            !.errors = {}]

\* Assets.tsx:88, 117-118, 366: the page closes the dialog; the form unmounts.
CloseDialog ==
    /\ form.open
    /\ form' = NoForm
    /\ submitted' = <<>>

----------------------------------------------------------------------------
(* The data-access services: lib/services/assetService.ts, debtService.ts
   and netWorthService.ts.  Every operation awaits one query of the remote
   store and acts on the { data, error } it answers with. *)

\* Bound on the records of net_worth_history.
MaxRecords == 2

ServiceOps == {"getAssets", "addAsset", "updateAsset", "deleteAsset",
               "getDebts", "addDebt", "updateDebt", "deleteDebt",
               "getNetWorthHistory", "addNetWorthRecord",
               "getLatestNetWorthRecord"}

NetWorthOps == {"getNetWorthHistory", "addNetWorthRecord",
                "getLatestNetWorthRecord"}

\* What an operation does with data: "rows" returns data || [], "first"
\* returns data?.[0], "flag" reads no data and returns true.
OpShape(op) ==
    IF op \in {"getAssets", "getDebts", "getNetWorthHistory"} THEN "rows"
    ELSE IF op \in {"deleteAsset", "deleteDebt"} THEN "flag"
    ELSE "first"

\* The errors the remote store reports; NoError is error: null.
NoError == "null"
RemoteErrors == {"PGRST301", "FetchError"}

\* The rows of assets and debts the store answers with (ids only).
EntryRows == {<<>>, <<"e1">>, <<"e1", "e2">>}

\* The net_worth values of the records added.
RecordValues == {5000, -200}

\* net_worth_history ordered by date, descending: the store dates a record
\* when it is added, so the latest has the largest id.
RECURSIVE ByDateDescending(_)
ByDateDescending(records) ==
    IF records = {} THEN <<>>
    ELSE LET latest == CHOOSE r \in records : \A q \in records : q.id <= r.id
         IN  <<latest>> \o ByDateDescending(records \ {latest})

\* .limit(1)
Limit1(rows) == IF rows = <<>> THEN <<>> ELSE <<rows[1]>>

\* netWorthService.ts:18-21: .insert([record]) adds the row to the table.
InsertRecordMutant(records, row) == {row}

InsertRecord(records, row) == records \cup {row}

\* A response { data, error }.  data: null is isNull.
Response(rows, isNull, error) == [rows |-> rows, isNull |-> isNull, error |-> error]

NoResponse == Response(<<>>, TRUE, NoError)

\* The store refuses the query: data is null, error is set.
ErrorResponses == {Response(<<>>, TRUE, e) : e \in RemoteErrors}

\* The answers without error to a query of assets or debts.  The store may
\* answer an insert or update with no row (a policy hides it) or no data.
EntryResponses(op) ==
    IF OpShape(op) = "flag" THEN {NoResponse}
    ELSE {Response(rows, FALSE, NoError) : rows \in EntryRows}
         \cup {NoResponse}

\* The outcome of an operation: it returned value or threw error.  A value
\* is held in a sequence: <<>> is undefined.
Returned(value) == [kind |-> "returned", value |-> value, error |-> NoError]
Thrown(error) == [kind |-> "thrown", value |-> <<>>, error |-> error]
NoOutcome == [kind |-> "none", value |-> <<>>, error |-> NoError]

\* assetService.ts:12-13, 23-24, 35-36, 46-47 and the same lines of
\* debtService.ts; netWorthService.ts:12-13, 23-24, 35-36.
ServiceResultMutant(op, resp) ==
    IF OpShape(op) = "rows" THEN Returned(<<resp.rows>>)
    ELSE IF resp.error # NoError THEN Thrown(resp.error)
    ELSE IF OpShape(op) = "flag" THEN Returned(<<TRUE>>)
    ELSE Returned(IF resp.isNull THEN <<>> ELSE Limit1(resp.rows))

ServiceResult(op, resp) ==
    IF resp.error # NoError THEN Thrown(resp.error)
    ELSE IF OpShape(op) = "rows"
         THEN Returned(<<IF resp.isNull THEN <<>> ELSE resp.rows>>)
    ELSE IF OpShape(op) = "flag" THEN Returned(<<TRUE>>)
    ELSE Returned(IF resp.isNull THEN <<>> ELSE Limit1(resp.rows))

NoSvc == [op |-> "none", pc |-> "idle", arg |-> 0, remoteCalls |-> 0,
          resp |-> NoResponse, outcome |-> NoOutcome]

InitServices == svc = NoSvc /\ netWorthHistory = {}

\* A caller invokes an operation: the operation sends its one query.
ServiceCall(op, arg) ==
    /\ svc.pc = "idle"
    /\ svc' = [NoSvc EXCEPT !.op = op, !.pc = "remote", !.arg = arg,
                            !.remoteCalls = 1]
    /\ UNCHANGED netWorthHistory

\* The store refuses the query or cannot be reached; nothing is stored.
RemoteFails(resp) ==
    /\ svc.pc = "remote"
    /\ svc' = [svc EXCEPT !.pc = "settled", !.resp = resp,
                          !.outcome = ServiceResult(svc.op, resp)]
    /\ UNCHANGED netWorthHistory

\* The store answers a query of assets or debts.
EntriesAnswer(resp) ==
    /\ svc.pc = "remote"
    /\ svc.op \notin NetWorthOps
    /\ resp \in EntryResponses(svc.op)
    /\ svc' = [svc EXCEPT !.pc = "settled", !.resp = resp,
                          !.outcome = ServiceResult(svc.op, resp)]
    /\ UNCHANGED netWorthHistory

\* netWorthService.ts:6-14 and 28-37: the store answers a select.
NetWorthSelectAnswers ==
    /\ svc.pc = "remote"
    /\ svc.op \in {"getNetWorthHistory", "getLatestNetWorthRecord"}
    /\ LET rows == ByDateDescending(netWorthHistory)
           resp == Response(IF svc.op = "getNetWorthHistory" THEN rows
                            ELSE Limit1(rows), FALSE, NoError)
       IN  svc' = [svc EXCEPT !.pc = "settled", !.resp = resp,
                              !.outcome = ServiceResult(svc.op, resp)]
    /\ UNCHANGED netWorthHistory

\* netWorthService.ts:17-25: the store inserts the record and answers with
\* the inserted row.
NetWorthInsertAnswers ==
    /\ svc.pc = "remote"
    /\ svc.op = "addNetWorthRecord"
    /\ Cardinality(netWorthHistory) < MaxRecords
    /\ LET row == [id |-> Cardinality(netWorthHistory) + 1, net_worth |-> svc.arg]
           resp == Response(<<row>>, FALSE, NoError)
       IN  /\ netWorthHistory' = InsertRecord(netWorthHistory, row)
           /\ svc' = [svc EXCEPT !.pc = "settled", !.resp = resp,
                                 !.outcome = ServiceResult(svc.op, resp)]

\* The caller takes the outcome.
ServiceDone ==
    /\ svc.pc = "settled"
    /\ svc' = NoSvc
    /\ UNCHANGED netWorthHistory

----------------------------------------------------------------------------
(* lib/services/authService.ts: signUp, signIn and ensureUserInTable, for
   one identity.  The schema of the table users is not part of the sources:
   whether a second row with the same id is refused (usersIdUnique) is
   either way. *)

\* Bound on the signIn / signUp invocations of a behaviour.
MaxSignIns == 3

\* The invocations that may be in flight at once (two tabs, a double click).
AuthProcs == {"p1", "p2"}

\* authService.ts:6-10: select('id').eq('id', userId).single().  single()
\* answers PGRST116 unless exactly one row matches.
ReadUsers(rows) ==
    IF rows = 1 THEN [existingUser |-> TRUE, error |-> NoError]
    ELSE [existingUser |-> FALSE, error |-> "PGRST116"]

\* authService.ts:12-15
EnsureThrowsAtRead(read) == read.error # NoError /\ read.error # "PGRST116"

\* authService.ts:18: if (!existingUser)
NeedsInsertMutant(read) == TRUE

NeedsInsert(read) == ~read.existingUser

\* authService.ts:19-28: the insert into users, as the store executes it.
InsertIntoUsersMutant(rows, unique) ==
    IF rows >= 1 THEN [rows |-> rows, error |-> NoError]
    ELSE [rows |-> rows + 1, error |-> NoError]

InsertIntoUsers(rows, unique) ==
    IF rows >= 1 /\ unique THEN [rows |-> rows, error |-> "23505"]
    ELSE [rows |-> rows + 1, error |-> NoError]

\* authService.ts:45-57 and 67-79: what signUp / signIn ends with, given
\* the authentication error and whether ensureUserInTable threw.
SignOutcomeMutant(authError, ensureThrew) ==
    IF authError # NoError \/ ensureThrew THEN "thrown" ELSE "returned"

SignOutcome(authError, ensureThrew) ==
    IF authError # NoError THEN "thrown" ELSE "returned"

NoSign == [pc |-> "idle", fn |-> "signIn", authError |-> NoError,
           ensureCalled |-> FALSE, readNoRow |-> FALSE, insertIssued |-> FALSE,
           insertError |-> NoError, ensureThrew |-> FALSE, outcome |-> "none"]

NoAuthLog == [starts |-> 0, inserts |-> 0, overlapped |-> FALSE,
              tableFailed |-> FALSE]

InitAuth(schemas) ==
    /\ signs = [p \in AuthProcs |-> NoSign]
    /\ usersRows = 0
    /\ usersIdUnique \in schemas
    /\ authLog = NoAuthLog

InFlight(p) == signs[p].pc \in {"auth", "read", "insert"}

\* authService.ts:39-43, 61-65: the call of supabase.auth.
SignStart(p, fn) ==
    /\ ~InFlight(p)
    /\ authLog.starts < MaxSignIns
    /\ signs' = [signs EXCEPT ![p] = [NoSign EXCEPT !.pc = "auth", !.fn = fn]]
    /\ authLog' = [authLog EXCEPT
                     !.starts = @ + 1,
                     !.overlapped = @ \/ \E q \in AuthProcs \ {p} : InFlight(q)]
    /\ UNCHANGED <<usersRows, usersIdUnique>>

\* authService.ts:45, 67: if (error) throw error.
AuthFails(p, error) ==
    /\ signs[p].pc = "auth"
    /\ signs' = [signs EXCEPT ![p].pc = "done", ![p].authError = error,
                              ![p].outcome = SignOutcome(error, FALSE)]
    /\ UNCHANGED <<usersRows, usersIdUnique, authLog>>

\* authService.ts:48-50, 70-72: authentication succeeded; with a user,
\* ensureUserInTable sends its select.
AuthSucceeds(p, hasUser) ==
    /\ signs[p].pc = "auth"
    /\ signs' = IF hasUser
                THEN [signs EXCEPT ![p].pc = "read", ![p].ensureCalled = TRUE]
                ELSE [signs EXCEPT ![p].pc = "done",
                                   ![p].outcome = SignOutcome(NoError, FALSE)]
    /\ UNCHANGED <<usersRows, usersIdUnique, authLog>>

\* authService.ts:6-28: the select is answered; without a row the insert is
\* sent.
ReadAnswers(p) ==
    /\ signs[p].pc = "read"
    /\ LET read == ReadUsers(usersRows)
       IN  IF NeedsInsert(read)
           THEN /\ signs' = [signs EXCEPT ![p].pc = "insert", ![p].readNoRow = TRUE,
                                          ![p].insertIssued = TRUE]
                /\ authLog' = [authLog EXCEPT !.inserts = @ + 1]
           ELSE /\ signs' = [signs EXCEPT ![p].pc = "done",
                                          ![p].outcome = SignOutcome(NoError, FALSE)]
                /\ UNCHANGED authLog
    /\ UNCHANGED <<usersRows, usersIdUnique>>

\* authService.ts:12-15 with 51-54, 73-76: the select fails with another
\* error; ensureUserInTable throws and the caller's catch logs it.
ReadFails(p, error) ==
    /\ signs[p].pc = "read"
    /\ LET read == [existingUser |-> FALSE, error |-> error]
           threw == EnsureThrowsAtRead(read)
       IN  signs' = [signs EXCEPT ![p].pc = "done", ![p].ensureThrew = threw,
                                  ![p].outcome = SignOutcome(NoError, threw)]
    /\ authLog' = [authLog EXCEPT !.tableFailed = TRUE]
    /\ UNCHANGED <<usersRows, usersIdUnique>>

\* authService.ts:19-34 with 51-54, 73-76: the store executes the insert.
InsertAnswers(p) ==
    /\ signs[p].pc = "insert"
    /\ LET ins == InsertIntoUsers(usersRows, usersIdUnique)
           threw == ins.error # NoError
       IN  /\ usersRows' = ins.rows
           /\ signs' = [signs EXCEPT ![p].pc = "done", ![p].insertError = ins.error,
                                     ![p].ensureThrew = threw,
                                     ![p].outcome = SignOutcome(NoError, threw)]
    /\ UNCHANGED <<usersIdUnique, authLog>>

\* The insert does not reach the store, or a policy refuses it.
InsertFails(p, error) ==
    /\ signs[p].pc = "insert"
    /\ signs' = [signs EXCEPT ![p].pc = "done", ![p].insertError = error,
                              ![p].ensureThrew = TRUE,
                              ![p].outcome = SignOutcome(NoError, TRUE)]
    /\ authLog' = [authLog EXCEPT !.tableFailed = TRUE]
    /\ UNCHANGED <<usersRows, usersIdUnique>>

----------------------------------------------------------------------------
(* pages/Assets.tsx and pages/Debts (unnamed/part_000).  The two files
   differ in names only; mounted tells which of them is shown. *)

\* Bound on the handlers awaiting the store at once.
MaxHandlers == 1

\* Bound on the handlers in flight where their overlap is followed.
MaxOverlap == 2

\* Fewer than max handlers are awaiting the store.
HandlersInFlight(max) == Cardinality(handlers) < max

EntryPages == {"Assets", "Debts"}
TotalsViews == {"Dashboard", "NetWorth"}

\* The user who signs in and out; stored entries may name another owner.
Users == {"u1"}

\* An entry of the list: its id and its owner.
Entry(id, owner) == [id |-> id, user_id |-> owner]

\* What getAssets / getDebts answers the mount-time fetch with.  The fetch
\* effect has no dependency: the list stays when the user changes.
PageRows == {<<>>, <<Entry("a1", "u1"), Entry("a2", "u2")>>}

\* Assets.tsx:42-47
NewPage(pc) == [assets |-> <<>>, isDialogOpen |-> FALSE, editingAsset |-> <<>>,
                isLoading |-> TRUE, pc |-> pc]

NoCall == [op |-> "none", entry |-> <<>>, authUser |-> "none"]

NoPageLog == [event |-> "none", alert |-> "none", lastCall |-> NoCall]

InitPageState ==
    /\ page = NewPage("unmounted")
    /\ handlers = {}
    /\ pageLog = NoPageLog

\* Assets.tsx:71-75, 99-103, 129-133: if (!user) { alert; return }
HandlerProceedsMutant(u) == TRUE

HandlerProceeds(u) == u # "none"

\* Assets.tsx:78-83, 106-110: { ...entry, user_id: user.id, ... }
WithUserId(entry, u) == [entry EXCEPT !.user_id = u]

\* AssetForm lines 98-111: the entry the form hands over.  A new entry has
\* a fresh id and no user_id; an edited one is { ...initialAsset, ...values }.
FormEntries(editing) ==
    IF editing = <<>> THEN {Entry("n1", "unset")} ELSE {editing[1]}

\* The remote query of each handler.
QueryOf(op) ==
    CASE op = "add" -> "insert" [] op = "edit" -> "update" [] OTHER -> "delete"

\* Assets.tsx:92, 122, 139 and 73, 101, 131
FailureAlert(op) ==
    CASE op = "add" -> "Failed to add asset. Please check if you are logged in."
      [] op = "edit" -> "Failed to update asset. Please check if you are logged in."
      [] OTHER -> "Failed to delete asset. Please check if you are logged in."

LoginAlert(op) ==
    CASE op = "add" -> "Please log in to add assets"
      [] op = "edit" -> "Please log in to edit assets"
      [] OTHER -> "Please log in to delete assets"

Range(list) == {list[i] : i \in 1..Len(list)}

RemoveId(list, id) == SelectSeq(list, LAMBDA e : e.id # id)

\* Assets.tsx:85-93, 112-123, 135-140: what the handler h does to the page
\* state once its service call has settled.  result is "rejected", or the
\* value the service returned (<<>> is undefined).  h.assets is the list
\* of the render the handler was created in.
HandlerSettlesMutant(h, result, p) ==
    IF result = "rejected" THEN [p EXCEPT !.isDialogOpen = FALSE]
    ELSE p

HandlerSettles(h, result, p) ==
    IF result = "rejected" THEN p
    ELSE CASE h.op = "add" ->
                [p EXCEPT !.assets = IF result # <<>> THEN Append(h.assets, result[1])
                                     ELSE @,
                          !.isDialogOpen = FALSE]
           [] h.op = "edit" ->
                [p EXCEPT !.assets =
                             IF result # <<>>
                             THEN [i \in 1..Len(h.assets) |->
                                     IF h.assets[i].id = result[1].id THEN result[1]
                                     ELSE h.assets[i]]
                             ELSE @,
                          !.editingAsset = <<>>,
                          !.isDialogOpen = FALSE]
           [] OTHER ->
                [p EXCEPT !.assets = RemoveId(h.assets, h.entry.id)]

\* What the service of h may return when the store reports no error: the
\* stored row or undefined; deleteAsset returns true.
ServiceValues(h) ==
    IF h.op = "delete" THEN {<<TRUE>>} ELSE {<<h.entry>>, <<>>}

\* What the last step did: its kind, the alert it raised and the remote
\* call it sent.
Logged(event, alert, call) == [event |-> event, alert |-> alert, lastCall |-> call]

Other(event) == Logged(event, "none", NoCall)

\* The router shows the view v (financial.ts:110-138): the view mounts with
\* the state of its useState initialisers and starts its mount-time fetch.
\* What an unmounted view's pending continuation would set is dropped.
Route(v) ==
    /\ mounted # v
    /\ mounted' = v
    /\ viewPc' = IF v \in TotalsViews THEN "getAssets" ELSE "unmounted"
    /\ assetsData' = <<>>
    /\ assets' = <<>>
    /\ debts' = <<>>
    /\ isLoading' = TRUE
    /\ totalAssets' = 0
    /\ totalDebts' = 0
    /\ netWorth' = 0
    /\ assetAllocation' = NoAllocation
    /\ debtAllocation' = NoAllocation
    /\ assetChartData' = <<>>
    /\ debtChartData' = <<>>
    /\ historicalData' = <<>>
    /\ effectPending' = (v \in TotalsViews)
    /\ effectRan' = FALSE
    /\ page' = NewPage(IF v \in EntryPages THEN "getEntries" ELSE "unmounted")
    /\ handlers' = {}
    /\ pageLog' = Other("route")
    /\ UNCHANGED user

\* part_001 lines 47-53: onAuthStateChange sets the user of the context.
AuthStateChange(u) ==
    /\ u # user
    /\ user' = u
    /\ pageLog' = Other("auth")
    /\ UNCHANGED <<page, handlers>>

\* Assets.tsx:56-57, 60-62: getAssets resolves.
PageFetchResolves(rows) ==
    /\ page.pc = "getEntries"
    /\ page' = [page EXCEPT !.assets = rows, !.isLoading = FALSE, !.pc = "done"]
    /\ pageLog' = Other("fetched")
    /\ UNCHANGED <<user, handlers>>

\* Assets.tsx:58-62: getAssets throws.
PageFetchRejects ==
    /\ page.pc = "getEntries"
    /\ page' = [page EXCEPT !.isLoading = FALSE, !.pc = "done"]
    /\ pageLog' = Other("fetchFailed")
    /\ UNCHANGED <<user, handlers>>

\* Assets.tsx:301 "Add New Asset", and 218-221 the pencil of row i.  The
\* rows are rendered once the list has loaded (lines 309-317); the Add
\* button is rendered from the start.
OpenDialog(i) ==
    /\ mounted \in EntryPages
    /\ ~page.isDialogOpen
    /\ i # 0 => ~page.isLoading
    /\ page' = [page EXCEPT !.isDialogOpen = TRUE,
                            !.editingAsset = IF i = 0 THEN @ ELSE <<page.assets[i]>>]
    /\ pageLog' = Other("dialog")
    /\ UNCHANGED <<user, handlers>>

\* Assets.tsx:364-367 onOpenChange(false), 374-377 onCancel.
DialogCloses ==
    /\ mounted \in EntryPages
    /\ page.isDialogOpen
    /\ page' = [page EXCEPT !.isDialogOpen = FALSE, !.editingAsset = <<>>]
    /\ pageLog' = Other("dialog")
    /\ UNCHANGED <<user, handlers>>

\* A handler runs up to its await (Assets.tsx:68-85, 96-112, 126-135).
HandlerRuns(op, entry) ==
    /\ mounted \in EntryPages
    /\ IF HandlerProceeds(user)
       THEN LET sent == IF op = "delete" THEN entry ELSE WithUserId(entry, user)
                call == [op |-> QueryOf(op), authUser |-> user,
                         entry |-> IF op = "delete" THEN <<>> ELSE <<sent>>]
            IN  /\ handlers' = handlers \cup
                       {[op |-> op, entry |-> sent, assets |-> page.assets]}
                /\ pageLog' = Logged(op, "none", call)
       ELSE /\ handlers' = handlers
            /\ pageLog' = Logged("notLoggedIn", LoginAlert(op), NoCall)
    /\ UNCHANGED <<user, page>>

\* The form hands a new entry to handleAddAsset (Assets.tsx:372-373).
HandleAdd(entry) ==
    /\ page.isDialogOpen /\ page.editingAsset = <<>>
    /\ \A e \in Range(page.assets) : e.id # entry.id
    /\ \A h \in handlers : h.entry.id # entry.id
    /\ entry \in FormEntries(page.editingAsset)
    /\ HandlerRuns("add", entry)

\* The form hands the edited entry to handleEditAsset.
HandleEdit(entry) ==
    /\ page.isDialogOpen /\ page.editingAsset # <<>>
    /\ entry \in FormEntries(page.editingAsset)
    /\ HandlerRuns("edit", entry)

\* Assets.tsx:230-233: the trash can of row i.
HandleDelete(i) ==
    /\ ~page.isLoading
    /\ HandlerRuns("delete", page.assets[i])

\* The service call of handler h returns.
HandlerResolves(h, value) ==
    /\ h \in handlers
    /\ value \in ServiceValues(h)
    /\ handlers' = handlers \ {h}
    /\ page' = HandlerSettles(h, value, page)
    /\ pageLog' = Other("settled")
    /\ UNCHANGED user

\* The service call of handler h throws: the catch block alerts.
HandlerRejects(h) ==
    /\ h \in handlers
    /\ handlers' = handlers \ {h}
    /\ page' = HandlerSettles(h, "rejected", page)
    /\ pageLog' = Logged("failed", FailureAlert(h.op), NoCall)
    /\ UNCHANGED user

----------------------------------------------------------------------------
(* The Dashboard's category details (Dashboard.tsx:31-35, 170-195, 285-291,
   375-381, 429).  A click is handled by the closures of the last render,
   after every pending effect has run; convertAmount reads the module's
   rate table at the time of the call. *)

\* Bound on the assets the Dashboard is ranked with.
MaxDetailEntries == 3

\* Assets whose largest entry is not in the category of the largest total,
\* and two entries of one category whose order depends on the EUR rate.
DetailsPool == {
    [name |-> 1, category |-> "cash", value |-> 60000, currency |-> "USD"],
    [name |-> 2, category |-> "investment", value |-> 45000, currency |-> "USD"],
    [name |-> 3, category |-> "investment", value |-> 40000, currency |-> "EUR"] }

\* The rows of the pool, each at most once.
DetailsAssetLists ==
    {rows \in ListsOf(DetailsPool, MaxDetailEntries) :
        \A i \in 1..(Len(rows) - 1) : rows[i].name < rows[i + 1].name}

\* Dashboard.tsx:32-35
NoDetails ==
    [isDetailsOpen |-> FALSE, selectedCategory |-> "", selectedItems |-> <<>>,
     isAssetCategory |-> TRUE]

InitDetails == details = NoDetails

\* Dashboard.tsx:173-174: the key of the allocation whose formatted name is
\* that of the clicked segment, "" for undefined.  The categories of the
\* entries modelled have distinct formatted names.
CategoryNamed(allocation, name) ==
    LET keys == {key \in DOMAIN allocation : formatCategoryName(key) = name}
    IN  IF keys = {} THEN "" ELSE CHOOSE key \in keys : TRUE

\* Dashboard.tsx:179-181, 286, 376
FilterByCategory(entries, category) ==
    SelectSeq(entries, LAMBDA e : e.category = category)

\* Dashboard.tsx:170-195, bound to the segments of both pies (lines 264, 354):
\* data is the chart item at index.
handlePieClick(index, isAsset) ==
    LET chart == IF isAsset THEN assetChartData ELSE debtChartData
        allocation == IF isAsset THEN assetAllocation ELSE debtAllocation
        entries == IF isAsset THEN assets ELSE debts
    IN  /\ mounted = "Dashboard"
        /\ ~effectPending
        /\ index \in 1..Len(chart)
        /\ LET categoryName == CategoryNamed(allocation, chart[index].name)
           IN  IF categoryName = ""
               THEN UNCHANGED details
               ELSE details' =
                      [isDetailsOpen |-> TRUE,
                       selectedCategory |-> categoryName,
                       selectedItems |->
                           SortByConverted(FilterByCategory(entries, categoryName)),
                       isAssetCategory |-> isAsset]

\* Dashboard.tsx:285-291 and 375-381: a click on a row of the legend under
\* a pie; the rows are the first five categories of the allocation.
LegendClick(category, isAsset) ==
    LET allocation == IF isAsset THEN assetAllocation ELSE debtAllocation
        entries == IF isAsset THEN assets ELSE debts
    IN  /\ mounted = "Dashboard"
        /\ ~effectPending
        /\ category \in DOMAIN allocation
        /\ details' =
              [isDetailsOpen |-> TRUE,
               selectedCategory |-> category,
               selectedItems |-> FilterByCategory(entries, category),
               isAssetCategory |-> isAsset]

\* Dashboard.tsx:429: the dialog closes through onOpenChange.
DetailsClose ==
    /\ details.isDetailsOpen
    /\ details' = [details EXCEPT !.isDetailsOpen = FALSE]

----------------------------------------------------------------------------
(* The AuthProvider (unnamed/part_001) and AppRoutes (types/financial.ts) *)

\* A session of the identity service, or "none" for null.  s1 and s3 are
\* two sessions of the same user (a refreshed token), s2 is another user's.
Sessions == {"none", "s1", "s2", "s3"}

\* part_001:36, 50: session?.user ?? null
UserOf(session) ==
    CASE session = "none" -> "none"
      [] session = "s2" -> "u2"
      [] OTHER -> "u1"

\* The locations of the hash router; "/other" stands for every path the
\* route table does not list.
Paths == {"/login", "/", "/assets", "/debts", "/net-worth", "/other"}

\* financial.ts:110-138, the route table.
RouteTable ==
    [p \in {"/login", "/", "/assets", "/debts", "/net-worth"} |->
        CASE p = "/login" -> "Login"
          [] p = "/" -> "Dashboard"
          [] p = "/assets" -> "Assets"
          [] p = "/debts" -> "Debts"
          [] OTHER -> "NetWorth"]

ProtectedViews == {"Dashboard", "Assets", "Debts", "NetWorth"}

\* A router without the two guards of AppRoutes.
AppRoutesMutant(u, loading, pathname) ==
    IF loading THEN [pathname |-> pathname, shown |-> "Loading"]
    ELSE IF pathname \in DOMAIN RouteTable
         THEN [pathname |-> pathname, shown |-> RouteTable[pathname]]
         ELSE [pathname |-> "/", shown |-> "Dashboard"]

\* financial.ts:90-140, AppRoutes: what is on screen once the redirects it
\* renders (<Navigate replace>) have replaced the location.
RECURSIVE AppRoutes(_, _, _)
AppRoutes(u, loading, pathname) ==
    IF loading THEN [pathname |-> pathname, shown |-> "Loading"]
    ELSE IF u = "none" /\ pathname # "/login" THEN AppRoutes(u, loading, "/login")
    ELSE IF u # "none" /\ pathname = "/login" THEN AppRoutes(u, loading, "/")
    ELSE IF pathname \in DOMAIN RouteTable
         THEN [pathname |-> pathname, shown |-> RouteTable[pathname]]
         ELSE AppRoutes(u, loading, "/")

\* The router's state: the location, the element shown, and (history) the
\* location last asked for.
Routed(u, loading, pathname) ==
    [pathname |-> AppRoutes(u, loading, pathname).pathname,
     shown |-> AppRoutes(u, loading, pathname).shown,
     requested |-> pathname]

\* part_001:26-28, the provider's state at construction; lookup is the
\* position of getInitialSession, called the history of the subscription.
NewProvider ==
    [session |-> "none", loading |-> TRUE, lookup |-> "pending", called |-> FALSE]

\* The application starts at any location, before the session is known.
InitBoot ==
    /\ user = "none"
    /\ authProvider = NewProvider
    /\ \E p \in Paths : router = Routed("none", TRUE, p)

\* The state the other specifications start from: a user has signed in and
\* the router shows the Dashboard.
InitSignedIn ==
    /\ user \in Users
    /\ authProvider = [session |-> "s1", loading |-> FALSE, lookup |-> "done",
                       called |-> FALSE]
    /\ router = Routed(user, FALSE, "/")

InitPage == InitSignedIn /\ InitPageState

\* A lookup whose finally block is missing: a failure leaves loading set.
ProviderAfterLookupMutant(p, outcome) ==
    IF outcome = "rejected"
    THEN [p EXCEPT !.lookup = "failed"]
    ELSE [p EXCEPT !.session = outcome, !.loading = FALSE, !.lookup = "done"]

\* part_001:32-42, the continuation of getInitialSession: outcome is the
\* session getSession resolved with, or "rejected" (authService.ts:90-94).
\* The two setters and the finally block run in one synchronous stretch.
ProviderAfterLookup(p, outcome) ==
    IF outcome = "rejected"
    THEN [p EXCEPT !.loading = FALSE, !.lookup = "failed"]
    ELSE [p EXCEPT !.session = outcome, !.loading = FALSE, !.lookup = "done"]

\* part_001:32-44: getInitialSession settles; the provider re-renders
\* and AppRoutes with it.
GetInitialSessionSettles(outcome) ==
    /\ authProvider.lookup = "pending"
    /\ authProvider' = ProviderAfterLookup(authProvider, outcome)
    /\ user' = IF outcome = "rejected" THEN user ELSE UserOf(outcome)
    /\ router' = Routed(user', authProvider'.loading, router.pathname)

\* part_001:47-53: the onAuthStateChange callback.
OnAuthStateChange(session) ==
    /\ authProvider' = [authProvider EXCEPT !.session = session, !.loading = FALSE,
                                            !.called = TRUE]
    /\ user' = UserOf(session)
    /\ router' = Routed(user', FALSE, router.pathname)

\* A link, navigate('/login') of MainLayout.tsx:31, navigate('/') of
\* Login.tsx:40, or an address typed by hand.
NavigateTo(pathname) ==
    /\ pathname # router.requested
    /\ router' = Routed(user, authProvider.loading, pathname)
    /\ UNCHANGED <<user, authProvider>>

-----------------------------------------------------------------------------
(* The specifications *)

InitOthers ==
    /\ InitRates /\ InitCurrency /\ InitView /\ InitForm /\ InitServices
    /\ InitPage /\ InitDetails

Init == InitOthers /\ InitRoundTrip /\ InitAuth({FALSE})

\* The variables outside the rate table, and outside the CurrencyProvider.
notRates == <<currency, conv, viewVars, rt, formVars, backVars>>
notProvider == <<viewVars, rt, formVars, backVars>>
notView == <<ratesVars, currency, conv, rt, formVars, backVars>>
notForm == <<ratesVars, currency, conv, viewVars, rt, backVars>>
notBack == <<ratesVars, currency, conv, viewVars, rt, formVars>>
notSvc == <<notBack, authVars, pageVars, details, routerVars>>
notAuth == <<notBack, svcVars, pageVars, details, routerVars>>
notPage == <<ratesVars, currency, conv, viewVars, rt, formVars, svcVars, authVars, details,
             routerVars>>
notRoute == <<ratesVars, currency, conv, rt, formVars, svcVars, authVars, details,
              routerVars>>
notRouter == <<ratesVars, currency, conv, viewVars, rt, formVars, svcVars, authVars,
               page, handlers, pageLog, details>>

\* The rate table under overlapping refreshes.
Next ==
    \/ \E f \in Fetchers : LoadExchangeRates(f) /\ UNCHANGED notRates
    \/ \E f \in Fetchers : FetchResolves(f) /\ UNCHANGED notRates
    \/ \E f \in Fetchers : FetchRejects(f) /\ UNCHANGED notRates
    \/ \E f \in Fetchers : JsonRejects(f) /\ UNCHANGED notRates
    \/ \E f \in Fetchers, data \in ApiData : JsonResolves(f, data) /\ UNCHANGED notRates
    \/ \E f \in Fetchers : LoadSettles(f) /\ UNCHANGED notRates
    \/ \E c \in AvailableCodes : SetCurrency(c) /\ UNCHANGED notProvider

Spec == Init /\ [][Next]_vars

\* Conversions between the refreshes of the table.
NextConvert ==
    \/ conv = NoConv /\ RatesStep({1}) /\ UNCHANGED notRates
    \/ \E a \in Amounts, f \in Codes, t \in Codes :
          CallConvertCurrency(a, f, t) /\ UNCHANGED notProvider
    \/ \E a \in Amounts, f \in Codes :
          CallConvertAmount(a, f) /\ UNCHANGED notProvider
    \/ ConvReturn /\ UNCHANGED notProvider
    \/ \E c \in AvailableCodes : SetCurrency(c) /\ UNCHANGED notProvider

SpecConvert == Init /\ [][NextConvert]_vars

NextView ==
    \/ DashboardEffect /\ effectRan' = TRUE /\ UNCHANGED notView
    \/ NetWorthEffect /\ effectRan' = TRUE /\ UNCHANGED notView
    \/ \E v \in {"Dashboard", "NetWorth"} :
          Navigate(v) /\ effectRan' = FALSE /\ UNCHANGED notView
    \/ \E rows \in AssetLists :
          GetAssetsResolves(rows) /\ effectRan' = FALSE /\ UNCHANGED notView
    \/ GetAssetsRejects /\ effectRan' = FALSE /\ UNCHANGED notView
    \/ \E rows \in DebtLists :
          GetDebtsResolves(rows) /\ effectRan' = FALSE /\ UNCHANGED notView
    \/ GetDebtsRejects /\ effectRan' = FALSE /\ UNCHANGED notView
    \/ \E h \in HistoryLists :
          GetHistoryResolves(h) /\ effectRan' = FALSE /\ UNCHANGED notView
    \/ GetHistoryRejects /\ effectRan' = FALSE /\ UNCHANGED notView
    \/ DashboardRender /\ effectRan' = FALSE /\ UNCHANGED notView
    \/ \E c \in AvailableCodes :
          SetCurrencyInView(c) /\ effectRan' = FALSE /\ UNCHANGED <<rt, formVars, backVars>>
    \/ LoadExchangeRates(1) /\ RatesInView
    \/ FetchResolves(1) /\ RatesInView
    \/ (\E data \in ViewApiData : JsonResolves(1, data)) /\ RatesInView
    \/ LoadSettles(1) /\ RatesInView

SpecView == Init /\ [][NextView]_vars

\* A conversion there and back under the default table.
NextRoundTrip ==
    \/ RoundTripThere /\ UNCHANGED <<ratesVars, currency, conv, viewVars, formVars, backVars>>
    \/ RoundTripBack /\ UNCHANGED <<ratesVars, currency, conv, viewVars, formVars, backVars>>

InitTrips == InitOthers /\ InitAuth({FALSE}) /\ rt \in RoundTripInputs

SpecRoundTrip == InitTrips /\ [][NextRoundTrip]_vars

NextForm ==
    \/ \E k \in {"asset", "debt"} : \E e \in InitialEntries(k) :
          OpenForm(k, e) /\ UNCHANGED notForm
    \/ \E n \in NameLengths : TypeName(n) /\ UNCHANGED notForm
    \/ \E c \in ASSET_CATEGORIES \cup DEBT_CATEGORIES :
          SelectCategory(c) /\ UNCHANGED notForm
    \/ \E raw \in RawValues : TypeValue(raw) /\ UNCHANGED notForm
    \/ \E c \in AvailableCodes : SelectCurrency(c) /\ UNCHANGED notForm
    \/ SubmitBlockedByBrowser /\ UNCHANGED notForm
    \/ SubmitInvalid /\ UNCHANGED notForm
    \/ SubmitValid /\ UNCHANGED notForm
    \/ CloseDialog /\ UNCHANGED notForm

SpecForm == Init /\ [][NextForm]_vars

\* Callers of the data-access services, one call at a time.
NextServices ==
    \/ \E op \in ServiceOps \ {"addNetWorthRecord"} :
          ServiceCall(op, 0) /\ UNCHANGED notSvc
    \/ \E v \in RecordValues :
          ServiceCall("addNetWorthRecord", v) /\ UNCHANGED notSvc
    \/ \E resp \in ErrorResponses : RemoteFails(resp) /\ UNCHANGED notSvc
    \/ \E resp \in EntryResponses(svc.op) :
          EntriesAnswer(resp) /\ UNCHANGED notSvc
    \/ NetWorthSelectAnswers /\ UNCHANGED notSvc
    \/ NetWorthInsertAnswers /\ UNCHANGED notSvc
    \/ ServiceDone /\ UNCHANGED notSvc

SpecServices == Init /\ [][NextServices]_vars

\* Sign-ins and sign-ups of one identity, overlapping or not.
NextAuth ==
    \/ \E p \in AuthProcs, fn \in {"signIn", "signUp"} :
          SignStart(p, fn) /\ UNCHANGED notAuth
    \/ \E p \in AuthProcs, e \in {"invalid_credentials"} :
          AuthFails(p, e) /\ UNCHANGED notAuth
    \/ \E p \in AuthProcs, hasUser \in BOOLEAN :
          AuthSucceeds(p, hasUser) /\ UNCHANGED notAuth
    \/ \E p \in AuthProcs : ReadAnswers(p) /\ UNCHANGED notAuth
    \/ \E p \in AuthProcs, e \in RemoteErrors :
          ReadFails(p, e) /\ UNCHANGED notAuth
    \/ \E p \in AuthProcs : InsertAnswers(p) /\ UNCHANGED notAuth
    \/ \E p \in AuthProcs, e \in RemoteErrors :
          InsertFails(p, e) /\ UNCHANGED notAuth

\* The table users with and without a unique id.
InitSchemas == InitOthers /\ InitRoundTrip /\ InitAuth(BOOLEAN)

SpecAuth == InitSchemas /\ [][NextAuth]_vars

\* The Assets and Debts pages.
NextPage ==
    \/ \E v \in EntryPages \cup TotalsViews : Route(v) /\ UNCHANGED notRoute
    \/ \E u \in Users \cup {"none"} : AuthStateChange(u) /\ UNCHANGED notPage
    \/ \E rows \in PageRows : PageFetchResolves(rows) /\ UNCHANGED notPage
    \/ PageFetchRejects /\ UNCHANGED notPage
    \/ \E i \in 0..Len(page.assets) : OpenDialog(i) /\ UNCHANGED notPage
    \/ DialogCloses /\ UNCHANGED notPage
    \/ \E entry \in FormEntries(page.editingAsset) :
          HandlersInFlight(MaxHandlers) /\ HandleAdd(entry) /\ UNCHANGED notPage
    \/ \E entry \in FormEntries(page.editingAsset) :
          HandlersInFlight(MaxHandlers) /\ HandleEdit(entry) /\ UNCHANGED notPage
    \/ \E i \in 1..Len(page.assets) :
          HandlersInFlight(MaxHandlers) /\ HandleDelete(i) /\ UNCHANGED notPage
    \/ \E h \in handlers : \E value \in ServiceValues(h) :
          HandlerResolves(h, value) /\ UNCHANGED notPage
    \/ \E h \in handlers : HandlerRejects(h) /\ UNCHANGED notPage

SpecPage == Init /\ [][NextPage]_vars

\* One entry page with handlers whose remote calls overlap and all succeed.
NextOverlap ==
    \/ \E v \in EntryPages : Route(v) /\ UNCHANGED notRoute
    \/ \E rows \in PageRows : PageFetchResolves(rows) /\ UNCHANGED notPage
    \/ \E i \in 0..Len(page.assets) : OpenDialog(i) /\ UNCHANGED notPage
    \/ DialogCloses /\ UNCHANGED notPage
    \/ \E entry \in FormEntries(page.editingAsset) :
          HandlersInFlight(MaxOverlap) /\ HandleAdd(entry) /\ UNCHANGED notPage
    \/ \E entry \in FormEntries(page.editingAsset) :
          HandlersInFlight(MaxOverlap) /\ HandleEdit(entry) /\ UNCHANGED notPage
    \/ \E i \in 1..Len(page.assets) :
          HandlersInFlight(MaxOverlap) /\ HandleDelete(i) /\ UNCHANGED notPage
    \/ \E h \in handlers : \E value \in ServiceValues(h) :
          HandlerResolves(h, value) /\ UNCHANGED notPage

SpecOverlap == Init /\ [][NextOverlap]_vars

\* The application from its start: the session lookup, the auth callbacks
\* and the navigation, in any order.
InitStart ==
    /\ InitRates /\ InitCurrency /\ InitView /\ InitForm /\ InitServices
    /\ InitPageState /\ InitDetails /\ InitRoundTrip /\ InitAuth({FALSE})
    /\ InitBoot

NextRouter ==
    \/ \E outcome \in Sessions \cup {"rejected"} :
          GetInitialSessionSettles(outcome) /\ UNCHANGED notRouter
    \/ \E session \in Sessions : OnAuthStateChange(session) /\ UNCHANGED notRouter
    \/ \E pathname \in Paths : NavigateTo(pathname) /\ UNCHANGED notRouter

SpecRouter == InitStart /\ [][NextRouter]_vars

\* The answers to the mount-time fetches, and to the rate loads, that the
\* loading flags are followed with.
FewAssetLists == {rows \in AssetLists : Len(rows) <= 1}
FewDebtLists == {rows \in DebtLists : Len(rows) <= 1}
FewApiData == {d \in ApiData : HasRates(d) => d \in ViewApiData}

\* A step of a view's mount-time fetch.
ViewFetchStep ==
    /\ effectRan' = FALSE
    /\ UNCHANGED notView

\* The mount-time fetches of the four views and the rate loads.
NextLoading ==
    \/ \E v \in EntryPages \cup TotalsViews : Route(v) /\ UNCHANGED notRoute
    \/ (\E rows \in FewAssetLists : GetAssetsResolves(rows)) /\ ViewFetchStep
    \/ GetAssetsRejects /\ ViewFetchStep
    \/ (\E rows \in FewDebtLists : GetDebtsResolves(rows)) /\ ViewFetchStep
    \/ GetDebtsRejects /\ ViewFetchStep
    \/ (\E h \in HistoryLists : GetHistoryResolves(h)) /\ ViewFetchStep
    \/ GetHistoryRejects /\ ViewFetchStep
    \/ \E rows \in PageRows : PageFetchResolves(rows) /\ UNCHANGED notPage
    \/ PageFetchRejects /\ UNCHANGED notPage
    \/ \E f \in Fetchers : LoadExchangeRates(f) /\ UNCHANGED notRates
    \/ \E f \in Fetchers : FetchResolves(f) /\ UNCHANGED notRates
    \/ \E f \in Fetchers : FetchRejects(f) /\ UNCHANGED notRates
    \/ \E f \in Fetchers : JsonRejects(f) /\ UNCHANGED notRates
    \/ \E f \in Fetchers, data \in FewApiData :
          JsonResolves(f, data) /\ UNCHANGED notRates
    \/ \E f \in Fetchers : LoadSettles(f) /\ UNCHANGED notRates

SpecLoading == Init /\ [][NextLoading]_vars

\* The debts the Dashboard is ranked with: the credit cards.
DetailsDebtLists ==
    {rows \in DebtLists : \A i \in 1..Len(rows) : rows[i].category = "credit_card"}

\* The Dashboard with its charts and its category details.
NextDetails ==
    \/ DashboardEffect /\ effectRan' = TRUE /\ UNCHANGED notView
    \/ DashboardRender /\ effectRan' = FALSE /\ UNCHANGED notView
    \/ \E rows \in DetailsAssetLists :
          GetAssetsResolves(rows) /\ effectRan' = FALSE /\ UNCHANGED notView
    \/ GetAssetsRejects /\ effectRan' = FALSE /\ UNCHANGED notView
    \/ \E rows \in DetailsDebtLists :
          GetDebtsResolves(rows) /\ effectRan' = FALSE /\ UNCHANGED notView
    \/ GetDebtsRejects /\ effectRan' = FALSE /\ UNCHANGED notView
    \/ \E index \in 1..MaxDetailEntries, isAsset \in BOOLEAN :
          /\ handlePieClick(index, isAsset)
          /\ UNCHANGED <<viewVars, notDashboard>>
    \/ \E category \in ASSET_CATEGORIES \cup DEBT_CATEGORIES, isAsset \in BOOLEAN :
          /\ LegendClick(category, isAsset)
          /\ UNCHANGED <<viewVars, notDashboard>>
    \/ DetailsClose /\ UNCHANGED <<viewVars, notDashboard>>
    \/ LoadExchangeRates(1) /\ RatesInView
    \/ FetchResolves(1) /\ RatesInView
    \/ (\E data \in ViewApiData : JsonResolves(1, data)) /\ RatesInView
    \/ LoadSettles(1) /\ RatesInView

SpecDetails == Init /\ [][NextDetails]_vars

\* The two views of the totals under changes of the display currency.
NextRederive ==
    \/ DashboardEffect /\ effectRan' = TRUE /\ UNCHANGED notView
    \/ NetWorthEffect /\ effectRan' = TRUE /\ UNCHANGED notView
    \/ \E v \in TotalsViews :
          Navigate(v) /\ effectRan' = FALSE /\ UNCHANGED notView
    \/ \E rows \in AssetLists :
          GetAssetsResolves(rows) /\ effectRan' = FALSE /\ UNCHANGED notView
    \/ GetAssetsRejects /\ effectRan' = FALSE /\ UNCHANGED notView
    \/ \E rows \in DebtLists :
          GetDebtsResolves(rows) /\ effectRan' = FALSE /\ UNCHANGED notView
    \/ GetDebtsRejects /\ effectRan' = FALSE /\ UNCHANGED notView
    \/ \E h \in HistoryLists :
          GetHistoryResolves(h) /\ effectRan' = FALSE /\ UNCHANGED notView
    \/ GetHistoryRejects /\ effectRan' = FALSE /\ UNCHANGED notView
    \/ DashboardRender /\ effectRan' = FALSE /\ UNCHANGED notView
    \/ \E c \in AvailableCodes :
          SetCurrencyInView(c) /\ effectRan' = FALSE /\ UNCHANGED <<rt, formVars, backVars>>

\* The aggregation effect of the mounted view is due: what enables
\* DashboardEffect or NetWorthEffect.
EffectDue == effectPending /\ mounted \in TotalsViews

\* React runs the effects whose dependencies changed after each render, so
\* an effect does not stay due for ever.  This is weak fairness of the two
\* effects, with their enabling condition written out.
SpecRederive == Init /\ [][NextRederive]_vars /\ []<>~EffectDue

----------------------------------------------------------------------------
(* Claims about convertCurrency and convertAmount (SpecConvert) *)

\* r is x = amount * table[to] / table[from] rounded to 2 decimal places: a
\* whole number of cents at most half a cent away from x.
IsRounded(r, amount, from, to, table) ==
    /\ r % Cent = 0
    /\ 2 * Abs(r * table[from] - amount * table[to]) <= Cent * table[from]

InTable(c) == c \in DOMAIN exchangeRates

\* C1, as stated: for every amount and every pair of distinct codes that are
\* both in the rate table, convertCurrency returns amount * rate[to] /
\* rate[from] rounded to 2 decimal places, under the table of the call.
C1_ConvertRoundsAnyPresentRate ==
    (/\ conv.fn = "convertCurrency"
     /\ conv.from # conv.to /\ InTable(conv.from) /\ InTable(conv.to))
        => IsRounded(conv.result, conv.amount, conv.from, conv.to, exchangeRates)

\* C1, amended: the same, for codes whose entries in the table are not 0 (an
\* entry of 0 is read as 1 by the "|| 1" of lines 69-70).
C1_ConvertRoundsNonZeroRate ==
    (/\ conv.fn = "convertCurrency"
     /\ conv.from # conv.to /\ InTable(conv.from) /\ InTable(conv.to)
     /\ exchangeRates[conv.from] # 0 /\ exchangeRates[conv.to] # 0)
        => IsRounded(conv.result, conv.amount, conv.from, conv.to, exchangeRates)

\* C1 witness: 1.234 EUR to RON under a fetched table (EUR 0.85, RON 5.00)
\* has given 7.26.
C1_Witness ==
    /\ conv = [fn |-> "convertCurrency", amount |-> 1234, from |-> "EUR",
               to |-> "RON", result |-> 7260]
    /\ InTable("GBP")
    /\ exchangeRates["EUR"] = 85

\* C2: a conversion whose source and target currency are the same code
\* returns the amount unchanged and unrounded, by convertCurrency and by
\* convertAmount, whether or not the code is in the table.
C2_SameCurrencyIsIdentity ==
    (conv.fn # "none" /\ conv.from = conv.to) => conv.result = conv.amount

\* C2 witness: convertCurrency(1.234, GBP, GBP) while GBP is not in the table.
C2_Witness ==
    /\ conv.fn = "convertCurrency"
    /\ conv.from = "GBP" /\ conv.to = "GBP"
    /\ conv.amount = 1234 /\ conv.result = 1234
    /\ ~InTable("GBP")

----------------------------------------------------------------------------
(* Claims about the rate table (Spec) *)

\* C4: a failed fetch leaves the table as it was, so the table is always the
\* defaults when no fetch has succeeded and otherwise the table stored by
\* the last successful fetch.
C4_FailureKeepsTable == exchangeRates = lastStored

\* C4 witness: the last settled fetch failed after an earlier one had stored
\* a table that differs from the defaults.
C4_Witness ==
    /\ lastOutcome = "failed"
    /\ exchangeRates # defaultExchangeRates
    /\ \A f \in Fetchers : fetchPc[f] = "idle"

\* C5, as stated: after a fetch that failed, the table conversions read is
\* the static default table, also when an earlier fetch had succeeded.
C5_FailureRestoresDefaults ==
    lastOutcome = "failed" => exchangeRates = defaultExchangeRates

\* C6, as stated: the entry for USD is 1 in every state of the table.
C6_UsdIsOne == InTable("USD") /\ exchangeRates["USD"] = RateScale

----------------------------------------------------------------------------
(* Claims about the aggregation of the views (SpecView) *)

\* The sum of convertAmount(value, currency) over the entries at the
\* positions idx of entries.
RECURSIVE ConvertedSumAt(_, _)
ConvertedSumAt(entries, idx) ==
    IF idx = {} THEN 0
    ELSE LET i == CHOOSE j \in idx : TRUE
         IN  convertAmount(entries[i].value, entries[i].currency)
             + ConvertedSumAt(entries, idx \ {i})

PositionsOf(entries, category) ==
    {i \in 1..Len(entries) : entries[i].category = category}

RECURSIVE SumOfAllocation(_, _)
SumOfAllocation(alloc, cats) ==
    IF cats = {} THEN 0
    ELSE LET c == CHOOSE x \in cats : TRUE
         IN  alloc[c] + SumOfAllocation(alloc, cats \ {c})

\* alloc and total are the aggregation of entries by category.
IsAggregationOf(alloc, total, entries) ==
    /\ DOMAIN alloc = {entries[i].category : i \in 1..Len(entries)}
    /\ \A c \in DOMAIN alloc :
          alloc[c] = ConvertedSumAt(entries, PositionsOf(entries, c))
    /\ total = SumOfAllocation(alloc, DOMAIN alloc)
    /\ total = ConvertedSumAt(entries, 1..Len(entries))

\* C7: when the Dashboard's aggregation effect has run, each category total
\* is the sum of convertAmount over exactly the entries of that category,
\* the overall total is the sum of the category totals, and every entry is
\* counted once; for assets and for debts.
C7_CategoryTotalsAreSums ==
    (mounted = "Dashboard" /\ effectRan) =>
        /\ IsAggregationOf(assetAllocation, totalAssets, assets)
        /\ IsAggregationOf(debtAllocation, totalDebts, debts)

\* C7 witness: the effect has run over two assets of one category held in
\* different currencies and two debts of different categories.
C7_Witness ==
    /\ mounted = "Dashboard" /\ effectRan
    /\ Len(assets) = 2 /\ assets[1].category = assets[2].category
    /\ assets[1].currency # assets[2].currency
    /\ Len(debts) = 2 /\ debts[1].category # debts[2].category
    /\ currency = "EUR"

\* C8: with the entries {cash, 100, USD} and {cash, 50, EUR}, the rates
\* USD 1 and EUR 0.92 and the display currency USD, the Dashboard's total
\* for cash is 154.35.
C8_CashExample ==
    (/\ mounted = "Dashboard" /\ effectRan
     /\ assets = <<[name |-> 1, category |-> "cash", value |-> 100000, currency |-> "USD"],
                   [name |-> 2, category |-> "cash", value |-> 50000, currency |-> "EUR"]>>
     /\ currency = "USD"
     /\ exchangeRates["USD"] = 100 /\ exchangeRates["EUR"] = 92)
        => (assetAllocation = [c \in {"cash"} |-> 154350] /\ totalAssets = 154350)

\* C8 witness: the effect has run over exactly these inputs.
C8_Witness ==
    /\ mounted = "Dashboard" /\ effectRan
    /\ Len(assets) = 2
    /\ assets[1].value = 100000 /\ assets[1].currency = "USD"
    /\ assets[2].value = 50000 /\ assets[2].currency = "EUR"
    /\ currency = "USD"
    /\ exchangeRates["EUR"] = 92
    /\ "cash" \in DOMAIN assetAllocation

\* C9: in the Dashboard and in the NetWorth view the net worth shown is the
\* total assets shown minus the total debts shown, with no rounding of the
\* difference.
C9_NetWorthIsDifference == netWorth = totalAssets - totalDebts

\* C9 witness: the Dashboard has derived totals whose difference is not a
\* whole number of cents.
C9_Witness ==
    /\ mounted = "Dashboard" /\ effectRan
    /\ totalAssets # 0 /\ totalDebts # 0
    /\ netWorth % Cent # 0

----------------------------------------------------------------------------
(* Claims about a conversion there and back (SpecRoundTrip) *)

RoundTripError == Abs(rt.back - rt.amount)

\* C3, as stated: under the default table, converting a 2-decimal amount
\* a > 0 from f to t and back gives a to within 0.01.
C3_RoundTripWithinOneCent ==
    rt.stage = "back" => RoundTripError <= Cent

\* C3, amended: it gives a to within 0.02, and to within 0.01 when
\* rate[f] <= rate[t].
C3_RoundTripWithinTwoCents ==
    rt.stage = "back" =>
        /\ RoundTripError <= 2 * Cent
        /\ defaultExchangeRates[rt.from] <= defaultExchangeRates[rt.to]
              => RoundTripError <= Cent

\* C3 witness: 0.02 RON to USD is 0.00, and back 0.00.
C3_Witness ==
    /\ rt.stage = "back" /\ rt.from = "RON" /\ rt.to = "USD"
    /\ rt.amount = 2 * Cent /\ rt.there = 0 /\ rt.back = 0

----------------------------------------------------------------------------
(* Claims about the forms (SpecForm) *)

\* C10: every entry the asset form or the debt form hands to onSubmit has a
\* value greater than 0.
C10_SubmittedValuePositive ==
    submitted # <<>> => submitted[1].value > 0

\* C10 witness: the form has handed over an entry with the smallest value
\* the input accepts, after an edit of an entry stored with value 0.
C10_Witness ==
    /\ submitted # <<>>
    /\ submitted[1].value = MinInputValue
    /\ form.initial # <<>> /\ form.initial[1].value = 0

----------------------------------------------------------------------------
(* Claims about the data-access services (SpecServices) *)

\* C11: when the remote call reports an error, the operation throws that
\* same error after exactly one remote call and returns no value; when it
\* reports none, a list operation returns the rows, or an empty list when
\* data is null.
C11_ErrorsPropagateUnchanged ==
    svc.pc = "settled" =>
        /\ svc.remoteCalls = 1
        /\ svc.resp.error # NoError =>
              /\ svc.outcome.kind = "thrown"
              /\ svc.outcome.error = svc.resp.error
              /\ svc.outcome.value = <<>>
        /\ (svc.resp.error = NoError /\ OpShape(svc.op) = "rows") =>
              /\ svc.outcome.kind = "returned"
              /\ svc.outcome.value =
                    <<IF svc.resp.isNull THEN <<>> ELSE svc.resp.rows>>

\* C11 witness: getDebts has thrown the error the store reported.
C11_Witness ==
    /\ svc.pc = "settled" /\ svc.op = "getDebts"
    /\ svc.resp.error = "PGRST301"
    /\ svc.outcome = Thrown("PGRST301")

\* C15: no step changes or removes a record of net_worth_history; the set
\* grows only by the one record of a successful addNetWorthRecord.
C15_HistoryIsAppendOnly ==
    [][/\ netWorthHistory \subseteq netWorthHistory'
       /\ netWorthHistory' # netWorthHistory =>
             /\ Cardinality(netWorthHistory') = Cardinality(netWorthHistory) + 1
             /\ svc.op = "addNetWorthRecord"
             /\ svc'.outcome.kind = "returned" /\ svc'.outcome.value # <<>>
       /\ (svc.op = "addNetWorthRecord" /\ svc.pc = "remote"
           /\ svc'.outcome.kind = "returned") =>
             Cardinality(netWorthHistory') = Cardinality(netWorthHistory) + 1]_vars

\* C15 witness: two records were added and then read back, latest first.
C15_Witness ==
    /\ Cardinality(netWorthHistory) = 2
    /\ svc.pc = "settled" /\ svc.op = "getNetWorthHistory"
    /\ svc.outcome.kind = "returned"
    /\ Len(svc.outcome.value[1]) = 2 /\ svc.outcome.value[1][1].id = 2

----------------------------------------------------------------------------
(* Claims about sign-in and sign-up (SpecAuth) *)

\* C12: when authentication succeeds, signIn and signUp return the data even
\* if ensureUserInTable fails at its read or at its insert; when
\* authentication fails, the error is thrown and ensureUserInTable is not
\* called.
C12_MirrorFailureNeverFailsSignIn ==
    \A p \in AuthProcs :
        signs[p].pc = "done" =>
            /\ signs[p].authError = NoError => signs[p].outcome = "returned"
            /\ signs[p].authError # NoError =>
                  signs[p].outcome = "thrown" /\ ~signs[p].ensureCalled

\* C12 witness: a sign-up whose insert into users was refused has returned.
C12_Witness ==
    \E p \in AuthProcs :
        /\ signs[p].pc = "done" /\ signs[p].fn = "signUp"
        /\ signs[p].insertIssued /\ signs[p].ensureThrew
        /\ signs[p].outcome = "returned"

\* C13: when two sign-ins have both read 'no row' and both sent an insert
\* (the witness: they overlapped), the second insert has duplicated the row
\* or failed, and neither sign-in has thrown.
C13_RaceDuplicatesOrErrors ==
    \A p \in AuthProcs : \A q \in AuthProcs \ {p} :
        (/\ signs[p].pc = "done" /\ signs[q].pc = "done"
         /\ signs[p].readNoRow /\ signs[q].readNoRow
         /\ signs[p].insertIssued /\ signs[q].insertIssued) =>
            /\ \/ usersRows >= 2
               \/ signs[p].insertError # NoError
               \/ signs[q].insertError # NoError
            /\ signs[p].outcome = "returned" /\ signs[q].outcome = "returned"

\* C13 witness: both invocations read 'no row', both inserts were executed
\* and the table holds two rows of the one id.
C13_Witness ==
    /\ \A p \in AuthProcs :
          signs[p].pc = "done" /\ signs[p].readNoRow /\ signs[p].insertIssued
          /\ signs[p].outcome = "returned"
    /\ authLog.overlapped /\ authLog.starts = 2 /\ usersRows = 2

\* C14: while the invocations have not overlapped and the table users has
\* answered every query, the table holds one row once an invocation has
\* passed ensureUserInTable, and only the first has sent an insert.
C14_SequentialSignInsMirrorOnce ==
    (~authLog.overlapped /\ ~authLog.tableFailed) =>
        /\ authLog.inserts <= 1
        /\ \A p \in AuthProcs :
              (signs[p].pc = "done" /\ signs[p].ensureCalled) =>
                  usersRows = 1 /\ authLog.inserts = 1

\* C14 witness: three invocations one after another; the last found the row.
C14_Witness ==
    /\ ~authLog.overlapped /\ ~authLog.tableFailed
    /\ authLog.starts = 3 /\ authLog.inserts = 1 /\ usersRows = 1
    /\ \E p \in AuthProcs :
          signs[p].pc = "done" /\ signs[p].ensureCalled /\ ~signs[p].insertIssued

----------------------------------------------------------------------------
(* Claims about the Assets and Debts pages (SpecPage) *)

\* C16: the pages send no insert, update or delete while no user is
\* authenticated, and every entry sent to an insert or update carries the
\* id of the user authenticated when the handler ran.
C16_RemoteWritesAreOwnerScoped ==
    \* pageLog.lastCall is the call the last step sent, if it sent one
    pageLog.lastCall.op # "none" =>
        /\ pageLog.lastCall.authUser # "none"
        /\ pageLog.lastCall.op \in {"insert", "update"} =>
              pageLog.lastCall.entry[1].user_id = pageLog.lastCall.authUser

\* C16 witness: user u1 edited an entry stored for u2 and the update was
\* sent with user_id u1.
C16_Witness ==
    /\ pageLog.lastCall.op = "update"
    /\ pageLog.lastCall.entry[1].id = "a2"
    /\ pageLog.lastCall.entry[1].user_id = "u1"
    /\ pageLog.lastCall.authUser = "u1"

\* C19: the step in which a remote add, update or delete fails raises the
\* failure alert and leaves the entry list, the dialog's open flag and the
\* entry being edited as they were.
C19_FailureLeavesPageUnchanged ==
    [][pageLog'.event = "failed" =>
          /\ pageLog'.alert \in {FailureAlert(op) : op \in {"add", "edit", "delete"}}
          /\ page'.assets = page.assets
          /\ page'.isDialogOpen = page.isDialogOpen
          /\ page'.editingAsset = page.editingAsset]_vars

\* C19 witness: an update failed while the dialog was open on the entry.
C19_Witness ==
    /\ pageLog.event = "failed"
    /\ pageLog.alert = FailureAlert("edit")
    /\ page.isDialogOpen /\ page.editingAsset # <<>>
    /\ Len(page.assets) = 2

----------------------------------------------------------------------------
(* Claims about the loading flags (SpecLoading) *)

\* C20: once the mount-time fetch of the view shown has settled, with
\* success or with failure, the view's isLoading is false; once every rate
\* load that was started has settled, the CurrencyProvider's isLoading is
\* false.
C20_SettledFetchClearsLoading ==
    /\ (mounted \in TotalsViews /\ viewPc = "done") => ~isLoading
    /\ (mounted \in EntryPages /\ page.pc = "done") => ~page.isLoading
    /\ (lastOutcome # "none" /\ \A f \in Fetchers : fetchPc[f] = "idle") =>
          ~currencyIsLoading

\* C20 witness: the NetWorth view has its entries but the fetch of the
\* history failed, and the last rate load failed too; nothing is loading.
C20_Witness ==
    /\ mounted = "NetWorth" /\ viewPc = "done"
    /\ assets # <<>> /\ historicalData = <<>> /\ ~isLoading
    /\ lastOutcome = "failed" /\ \A f \in Fetchers : fetchPc[f] = "idle"
    /\ ~currencyIsLoading

----------------------------------------------------------------------------
(* Claims about the Dashboard's rankings (SpecDetails) *)

NonIncreasing(values) ==
    \A i \in 1..(Len(values) - 1) : values[i] >= values[i + 1]

\* chart holds one item per category of entries, with the category's
\* formatted name and converted total, largest total first.
IsRankingOf(chart, entries) ==
    LET categories == {entries[i].category : i \in 1..Len(entries)}
    IN  /\ NonIncreasing([i \in 1..Len(chart) |-> chart[i].value])
        /\ Len(chart) = Cardinality(categories)
        /\ \A c \in categories : \E i \in 1..Len(chart) :
              /\ chart[i].name = formatCategoryName(c)
              /\ chart[i].value = ConvertedSumAt(entries, PositionsOf(entries, c))

\* items holds the entries of the category, largest converted value first.
IsOrderedDetailsOf(items, entries, category) ==
    /\ NonIncreasing([i \in 1..Len(items) |->
                        convertAmount(items[i].value, items[i].currency)])
    /\ Len(items) = Cardinality(PositionsOf(entries, category))
    /\ \A i \in 1..Len(items) :
          items[i].category = category /\ items[i] \in Range(entries)

\* C17: when the Dashboard's aggregation effect has run, the chart data of
\* the assets and of the debts hold exactly one item per category that has
\* an entry, in order of non-increasing converted category total; and a
\* click on a pie segment sets the details list to the entries of the
\* segment's category in order of non-increasing converted value.
C17_ChartsAndDetailsAreRanked ==
    /\ []((mounted = "Dashboard" /\ effectRan) =>
            /\ IsRankingOf(assetChartData, assets)
            /\ IsRankingOf(debtChartData, debts))
    /\ [][(\E index \in 1..MaxDetailEntries, isAsset \in BOOLEAN :
               handlePieClick(index, isAsset)) =>
            IsOrderedDetailsOf(details'.selectedItems,
                               IF details'.isAssetCategory THEN assets ELSE debts,
                               details'.selectedCategory)]_vars

\* C17 witness: the asset chart ranks the category of the largest total
\* before the category of the largest entry, and the details list opened
\* from a segment holds two assets in the reverse of their order in the
\* state array, largest converted value first.
C17_Witness ==
    /\ mounted = "Dashboard"
    /\ Len(assets) = 3 /\ Len(assetChartData) = 2
    /\ assetChartData[1].name # formatCategoryName(assets[1].category)
    /\ assetChartData[1].value > assetChartData[2].value
    /\ details.isDetailsOpen /\ details.isAssetCategory
    /\ Len(details.selectedItems) = 2
    /\ \E i, j \in 1..Len(assets) :
          /\ i < j
          /\ assets[i] = details.selectedItems[2]
          /\ assets[j] = details.selectedItems[1]
    /\ convertAmount(details.selectedItems[1].value, details.selectedItems[1].currency)
         > convertAmount(details.selectedItems[2].value, details.selectedItems[2].currency)

----------------------------------------------------------------------------
(* Claims about the display currency of the views (SpecRederive) *)

\* The totals the mounted view shows are the aggregation of its entry
\* lists under convertAmount, that is, in the display currency.
TotalsAreAggregation ==
    /\ totalAssets = ConvertedSumAt(assets, 1..Len(assets))
    /\ totalDebts = ConvertedSumAt(debts, 1..Len(debts))
    /\ netWorth = totalAssets - totalDebts
    /\ mounted = "Dashboard" =>
          /\ IsAggregationOf(assetAllocation, totalAssets, assets)
          /\ IsAggregationOf(debtAllocation, totalDebts, debts)

\* C18: a change of the display currency makes the aggregation effect of
\* the mounted view (Dashboard or NetWorth) due; an effect that is due runs;
\* and when it has run, the category totals, total assets, total debts and
\* net worth are the aggregation of the current entry lists in the display
\* currency.
C18_CurrencyChangeRederivesTotals ==
    /\ [][currency' # currency => effectPending']_vars
    /\ effectPending ~> (effectRan /\ TotalsAreAggregation)
    /\ [](effectRan => TotalsAreAggregation)

\* C18 witness: the NetWorth view holds an asset and a debt in currencies
\* other than the display currency, which is not the initial one, its fetch
\* has settled, and the totals effect has just run.
C18_Witness ==
    /\ mounted = "NetWorth" /\ viewPc = "done" /\ effectRan
    /\ currency = "EUR"
    /\ Len(assets) = 2 /\ assets[1].currency = "USD" /\ assets[2].currency = "RON"
    /\ Len(debts) = 1 /\ debts[1].currency = "USD"
    /\ totalAssets = ConvertedSumAt(assets, {1, 2})
    /\ totalAssets # assets[1].value + assets[2].value
    /\ netWorth = totalAssets - totalDebts

----------------------------------------------------------------------------
(* Claims about overlapping rate fetches (Spec) *)

\* The tables a single response, or no response, gives.
WholeTables == {defaultExchangeRates} \cup {SpreadUSD(m) : m \in ApiRates}

\* Every invocation of fetchExchangeRates has returned.
AllFetchesSettled == \A f \in Fetchers : fetchPc[f] \in {"idle", "finally"}

\* C21: when every fetch in flight has settled, the rate table is the table
\* of the successful fetch that completed last, as a whole and not a merge
\* of two responses, or the table from before if none succeeded.
C21_LastSuccessfulFetchWins ==
    AllFetchesSettled =>
        /\ exchangeRates = lastStored
        /\ exchangeRates \in WholeTables

\* C21 witness: two fetches overlapped and both have returned, the first
\* with a table that has an entry the defaults lack, the second with a
\* failure; the table is the first one's.
C21_Witness ==
    /\ \A f \in Fetchers : fetchPc[f] = "finally"
    /\ lastOutcome = "failed"
    /\ "GBP" \in DOMAIN exchangeRates
    /\ exchangeRates = lastStored

----------------------------------------------------------------------------
(* Claims about the Dashboard under rate refreshes (SpecView) *)

\* C22, as stated: once the entry fetch and the rate fetch of a Dashboard
\* session have settled and no effect is due, the category totals, total
\* assets, total debts and net worth shown are the aggregation of the
\* fetched entries under the rate table in force, also after later rate
\* refreshes.
C22_TotalsFollowRateTable ==
    (/\ mounted = "Dashboard" /\ viewPc = "done" /\ ~effectPending
     /\ lastOutcome # "none"
     /\ \A f \in Fetchers : fetchPc[f] \in {"idle", "finally"})
        => /\ IsAggregationOf(assetAllocation, totalAssets, assets)
           /\ IsAggregationOf(debtAllocation, totalDebts, debts)
           /\ netWorth = totalAssets - totalDebts

----------------------------------------------------------------------------
(* Claims about overlapping handlers of an entry page (SpecOverlap) *)

Ids(list) == {list[i].id : i \in 1..Len(list)}

\* The step is the return of the service call of handler h.
SettledBy(h) ==
    /\ h \in handlers
    /\ handlers' = handlers \ {h}
    /\ pageLog'.event = "settled"

\* C23, as stated, step by step: the list holds the entries loaded at mount
\* plus the added ones minus the deleted ones exactly when every handler
\* that succeeds, overlapping with others or not, changes the entries of
\* the list by its own operation only: a delete removes its entry, an add
\* adds the returned row if there is one, an edit adds and removes none.
C23_ListIsLoadedPlusAddedMinusDeleted ==
    [][\A h \in handlers :
          SettledBy(h) =>
              CASE h.op = "delete" ->
                      Ids(page'.assets) = Ids(page.assets) \ {h.entry.id}
                [] h.op = "add" ->
                      \/ Ids(page'.assets) = Ids(page.assets) \cup {h.entry.id}
                      \/ page'.assets = page.assets
                [] OTHER -> Ids(page'.assets) = Ids(page.assets)]_vars

\* C29, as stated: the return of a successful edit replaces, in the local
\* list, exactly the entry whose id is the id of the returned row (the row
\* sent, h.entry) and leaves every other entry, the length and the order
\* of the list as they were; the replaced entry keeps its id.  When the
\* store returns no row the list stays as it is.
C29_EditReplacesExactlyOneEntry ==
    [][\A h \in handlers :
          (SettledBy(h) /\ h.op = "edit") =>
              /\ Len(page'.assets) = Len(page.assets)
              /\ \A i \in 1..Len(page.assets) :
                    /\ i \in DOMAIN page'.assets
                    /\ page'.assets[i].id = page.assets[i].id
                    /\ IF page.assets[i].id = h.entry.id
                       THEN page'.assets[i] \in {h.entry, page.assets[i]}
                       ELSE page'.assets[i] = page.assets[i]]_vars

-----------------------------------------------------------------------------
(* Claims about the AuthProvider and the router (SpecRouter) *)

C25_UserFollowsSession ==
    /\ [](user = UserOf(authProvider.session))
    /\ []((authProvider.lookup # "pending" \/ authProvider.called) => ~authProvider.loading)
    /\ [][~authProvider.loading => ~authProvider'.loading]_vars

\* A callback delivered another user's session, then the lookup failed.
C25_Witness ==
    /\ authProvider.lookup = "failed"
    /\ authProvider.called
    /\ authProvider.session = "s2"
    /\ user = "u2"
    /\ ~authProvider.loading

-----------------------------------------------------------------------------
(* Further claims about the rate table (Spec, SpecConvert) *)

\* C26: in every reachable state of the rate table, whatever rates mapping
\* the API answered with, each selectable currency (RON, EUR, USD) has an
\* entry, and the entry is a positive number.
C26_SelectableRatesArePositive ==
    \A c \in AvailableCodes :
        /\ c \in DOMAIN exchangeRates
        /\ exchangeRates[c] > 0

\* The table as convertCurrency reads it: every code has a rate, the rate
\* 1 where the table has no entry or an entry of 0.
ReadAsOne(table) ==
    [c \in Codes |-> IF c \in DOMAIN table /\ table[c] # 0 THEN table[c] ELSE RateScale]

\* C27: convertCurrency never divides by a missing or zero rate: a code
\* that is absent from the table, or whose rate is 0, counts as rate 1, so
\* for every amount and every pair of distinct codes the result is the
\* number amount * rate[to] / rate[from], with those rates, rounded to 2
\* decimal places.
C27_MissingOrZeroRateIsOne ==
    (conv.fn = "convertCurrency" /\ conv.from # conv.to) =>
        /\ ReadAsOne(exchangeRates)[conv.from] # 0
        /\ IsRounded(conv.result, conv.amount, conv.from, conv.to,
                     ReadAsOne(exchangeRates))

\* 1.234 RON to EUR under a fetched table without RON (EUR 0.92) has given
\* 1.14: 1.234 / 1 * 0.92 = 1.13528.
C27_Witness ==
    /\ conv = [fn |-> "convertCurrency", amount |-> 1234, from |-> "RON",
               to |-> "EUR", result |-> 1140]
    /\ ~InTable("RON")
    /\ exchangeRates["EUR"] = 92

-----------------------------------------------------------------------------
(* A further claim about the views (SpecView) *)

\* C28: for the same entry lists, display currency and rate table, the
\* Dashboard (sums by category, then the sum of the category totals) and
\* the NetWorth view (the sum entry by entry) show the same total assets,
\* total debts and net worth: what the mounted view has just derived is
\* what either way of summing gives for its lists.
C28_ViewsShowSameTotals ==
    (effectRan /\ mounted \in TotalsViews) =>
        /\ totalAssets = SumValues(CategorySums(assets))
        /\ totalAssets = SumConverted(assets)
        /\ totalDebts = SumValues(CategorySums(debts))
        /\ totalDebts = SumConverted(debts)
        /\ netWorth = SumConverted(assets) - SumConverted(debts)
        /\ netWorth = DashboardNetWorth(SumValues(CategorySums(assets)),
                                        SumValues(CategorySums(debts)))

\* The Dashboard has derived its totals from two assets of one category in
\* two currencies and from debts of two categories.
C28_Witness ==
    /\ effectRan /\ mounted = "Dashboard"
    /\ Len(assets) = 2 /\ assets[1].category = assets[2].category
    /\ assets[1].currency # assets[2].currency
    /\ Len(debts) = 2 /\ debts[1].category # debts[2].category
    /\ totalAssets = SumConverted(assets) /\ totalAssets > 0
    /\ totalDebts = SumConverted(debts) /\ totalDebts > 0


====
